---- MODULE Spec2Model ----
(***************************************************************************)
(* HeritagePlus museum management system: the relational store            *)
(* (database.py), the data access layer with its audit recorder            *)
(* (data_access_layer.py), the business services (business_layer.py), the  *)
(* simple CRUD variant (main.py, dal.py) and the reset utility             *)
(* (clean_database.py).                                                    *)
(*                                                                         *)
(* Text values whose content the code inspects (names, e-mails, phones)    *)
(* are sequences of one-character strings; values that are only compared   *)
(* or measured (usernames, passwords, roles) are TLA+ strings.  A nullable *)
(* column holds <<>> for NULL and <<v>> for a value.  Dates and timestamps *)
(* are day numbers; money is in cents.                                     *)
(*                                                                         *)
(* strict_checks tells which SQLite library the program runs on: a         *)
(* library that refuses date('now') inside a CHECK constraint when the     *)
(* constraint is evaluated (TRUE), or one that evaluates it (FALSE).       *)
(***************************************************************************)
EXTENDS Integers, Sequences, FiniteSets, TLC

VARIABLES users, audit_log, museum, museum_item, item_maintenance, guest,
          guest_visit, sqlite_sequence, now, strict_checks, last,
          pc, attempts, current_user, services

vars == <<users, audit_log, museum, museum_item, item_maintenance, guest,
          guest_visit, sqlite_sequence, now, strict_checks, last,
          pc, attempts, current_user, services>>

\* The interactive application: where it stands (not running, at the login
\* prompt, at the main menu), the failed logins of login(), the user that
\* logged in and the user id the four services were built with.
session == <<pc, attempts, current_user, services>>

\* The tables and counters of the database file.
store == <<users, audit_log, museum, museum_item, item_maintenance, guest,
           guest_visit, sqlite_sequence>>

(***************************************************************************)
(* Bounds of the model.                                                    *)
(***************************************************************************)
MaxNow == 1
MaxAudit == 2
MaxRows == 3
MaxId == 1
MaxGuests == 2
MaxExhibits == 16
MaxVisits == 81
MaxRatings == 7
MaxPlanItems == 3

(***************************************************************************)
(* The store as one value: the tables and the AUTOINCREMENT counters.      *)
(***************************************************************************)
Tables == {"users", "audit_log", "museum", "museum_item", "item_maintenance",
           "guest", "guest_visit"}

DB == [users |-> users, audit_log |-> audit_log, museum |-> museum,
       museum_item |-> museum_item, item_maintenance |-> item_maintenance,
       guest |-> guest, guest_visit |-> guest_visit, seq |-> sqlite_sequence]

Commit(db) ==
    /\ users' = db.users
    /\ audit_log' = db.audit_log
    /\ museum' = db.museum
    /\ museum_item' = db.museum_item
    /\ item_maintenance' = db.item_maintenance
    /\ guest' = db.guest
    /\ guest_visit' = db.guest_visit
    /\ sqlite_sequence' = db.seq

SetMax(S) == IF S = {} THEN 0 ELSE CHOOSE m \in S : \A x \in S : x <= m

\* INTEGER PRIMARY KEY AUTOINCREMENT: one more than the largest id the table
\* has ever held (sqlite_sequence) and than the largest id it holds now.
NextId(db, table, ids) ==
    LET s == db.seq[table]
        m == SetMax(ids)
    IN (IF s > m THEN s ELSE m) + 1

\* Outcomes of a call: a return value, or an exception with its message.
Ok(db, ret) == [db |-> db, exc |-> "", msg |-> "", ret |-> ret]
Raise(db, exc, msg) == [db |-> db, exc |-> exc, msg |-> msg, ret |-> <<>>]

\* A statement's outcome inside sqlite: the new store, or an error class.
Done(db, rowid) == [db |-> db, err |-> "", rowid |-> rowid]
Abort(db, err) == [db |-> db, err |-> err, rowid |-> 0]

(***************************************************************************)
(* users and audit_log tables.                                             *)
(***************************************************************************)
RoleNames == {"admin", "curator", "viewer"}
AuditActions == {"INSERT", "UPDATE", "DELETE"}

hash_password(password) == <<"sha256", password>>

UserIds(db) == {u.user_id : u \in db.users}

InsertUser(db, username, password_hash, role) ==
    IF \/ role \notin RoleNames
       \/ \E u \in db.users : u.username = username
    THEN Abort(db, "IntegrityError")
    ELSE LET id == NextId(db, "users", UserIds(db))
             row == [user_id |-> id, username |-> username,
                     password_hash |-> password_hash, role |-> role,
                     is_active |-> 1, last_login |-> <<>>]
         IN Done([db EXCEPT !.users = @ \cup {row},
                            !.seq["users"] = id], id)

InsertAudit(db, user_id, table_name, action, record_id, details) ==
    IF \/ action \notin AuditActions
       \/ user_id \notin UserIds(db)
    THEN Abort(db, "IntegrityError")
    ELSE LET id == NextId(db, "audit_log", 1..Len(db.audit_log))
             row == [log_id |-> id, user_id |-> user_id,
                     table_name |-> table_name, action |-> action,
                     record_id |-> record_id, details |-> details]
         IN Done([db EXCEPT !.audit_log = Append(@, row),
                            !.seq["audit_log"] = id], id)

UpdateLastLogin(db, user_id) ==
    Done([db EXCEPT !.users =
             {IF u.user_id = user_id THEN [u EXCEPT !.last_login = <<now>>]
              ELSE u : u \in @}], 0)

\* MuseumDAL.execute_write: the statement commits, or its error is raised
\* (an integrity error as ValueError, any other database error as
\* RuntimeError) and nothing of the statement is kept.
execute_write(db, stmt) ==
    IF stmt.err = "" THEN Ok(stmt.db, stmt.rowid)
    ELSE IF stmt.err = "IntegrityError"
    THEN Raise(db, "ValueError", "Data integrity violation")
    ELSE Raise(db, "RuntimeError", "Database error")

\* Mutant: the audit entry is never written.
log_audit_skipped(db, user_id, table_name, action, record_id, details) ==
    Ok(db, <<>>)

\* MuseumDAL.log_audit: skipped when the repository has no acting user.
log_audit(db, user_id, table_name, action, record_id, details) ==
    IF user_id # 0
    THEN execute_write(db, InsertAudit(db, user_id, table_name, action,
                                       record_id, details))
    ELSE Ok(db, <<>>)

\* A write followed by its audit entry; returns the id of the written row.
Audited(w, user_id, table_name, action, record_id, details) ==
    IF w.exc # "" THEN w
    ELSE LET a == log_audit(w.db, user_id, table_name, action, record_id,
                            details)
         IN IF a.exc # "" THEN a ELSE Ok(a.db, record_id)

(***************************************************************************)
(* Text.                                                                   *)
(***************************************************************************)
Whitespace == {" "}

RECURSIVE lstrip(_)
lstrip(s) == IF s # <<>> /\ Head(s) \in Whitespace THEN lstrip(Tail(s)) ELSE s

RECURSIVE rstrip(_)
rstrip(s) ==
    IF s # <<>> /\ s[Len(s)] \in Whitespace
    THEN rstrip(SubSeq(s, 1, Len(s) - 1)) ELSE s

strip(s) == rstrip(lstrip(s))

lower_char(c) ==
    CASE c = "A" -> "a"
      [] c = "B" -> "b"
      [] c = "C" -> "c"
      [] OTHER -> c

lower(s) == [i \in 1..Len(s) |-> lower_char(s[i])]

\* contact_email LIKE '%_@_%._%'
email_like(s) ==
    \E i, j \in 1..Len(s) :
        /\ s[i] = "@" /\ s[j] = "."
        /\ i >= 2 /\ j >= i + 2 /\ j < Len(s)

Has(s, c) == \E i \in 1..Len(s) : s[i] = c

(***************************************************************************)
(* museum, museum_item, item_maintenance, guest and guest_visit tables.    *)
(* Columns that no rule reads (address, opening hours, description,        *)
(* notes, item_type, phone) are left out of the rows.                      *)
(***************************************************************************)
Conditions == {"Excellent", "Good", "Fair", "Poor", "Restoration Required"}
Memberships == {"None", "Basic", "Premium", "Family"}

MuseumIds(db) == {m.id : m \in db.museum}
ItemIds(db) == {x.item_id : x \in db.museum_item}
GuestIds(db) == {g.guest_id : g \in db.guest}
VisitIds(db) == {v.visit_id : v \in db.guest_visit}
MaintenanceIds(db) == {r.maintenance_id : r \in db.item_maintenance}

\* INSERT OR IGNORE: a row that breaks a constraint is skipped without an
\* error; the AUTOINCREMENT counter has moved all the same.
OrIgnore(db, table, ids, stmt) ==
    IF stmt.err = "IntegrityError"
    THEN Done([db EXCEPT !.seq[table] = NextId(db, table, ids)], 0)
    ELSE stmt

InsertMuseum(db, museum_name, city) ==
    IF \/ Len(museum_name) = 0
       \/ Len(city) = 0
       \/ \E m \in db.museum : m.museum_name = museum_name /\ m.city = city
    THEN Abort(db, "IntegrityError")
    ELSE LET id == NextId(db, "museum", MuseumIds(db))
             row == [id |-> id, museum_name |-> museum_name, city |-> city]
         IN Done([db EXCEPT !.museum = @ \cup {row},
                            !.seq["museum"] = id], id)

UpdateMuseum(db, museum_id, museum_name, city) ==
    IF museum_id \notin MuseumIds(db) THEN Done(db, 0)
    ELSE IF \/ Len(museum_name) = 0
            \/ Len(city) = 0
            \/ \E m \in db.museum : /\ m.id # museum_id
                                    /\ m.museum_name = museum_name
                                    /\ m.city = city
    THEN Abort(db, "IntegrityError")
    ELSE Done([db EXCEPT !.museum =
                  {IF m.id = museum_id
                   THEN [m EXCEPT !.museum_name = museum_name, !.city = city]
                   ELSE m : m \in @}], 0)

\* The connections that delete do not enable foreign keys: no cascade.
DeleteMuseum(db, museum_id) ==
    Done([db EXCEPT !.museum = {m \in @ : m.id # museum_id}], 0)

InsertItem(db, fk, museum_ref, item_title, date_acquired, condition, value) ==
    IF \/ Len(item_title) = 0
       \/ (condition # <<>> /\ condition[1] \notin Conditions)
       \/ (value # <<>> /\ value[1] < 0)
       \/ (fk /\ museum_ref \notin MuseumIds(db))
    THEN Abort(db, "IntegrityError")
    ELSE LET id == NextId(db, "museum_item", ItemIds(db))
             row == [item_id |-> id, museum_ref |-> museum_ref,
                     item_title |-> item_title,
                     date_acquired |-> date_acquired,
                     condition |-> condition, value |-> value]
         IN Done([db EXCEPT !.museum_item = @ \cup {row},
                            !.seq["museum_item"] = id], id)

UpdateItemCondition(db, item_id, condition) ==
    IF item_id \notin ItemIds(db) THEN Done(db, 0)
    ELSE IF condition \notin Conditions THEN Abort(db, "IntegrityError")
    ELSE Done([db EXCEPT !.museum_item =
                  {IF x.item_id = item_id
                   THEN [x EXCEPT !.condition = <<condition>>]
                   ELSE x : x \in @}], 0)

UpdateItemTitle(db, item_id, item_title) ==
    IF item_id \notin ItemIds(db) THEN Done(db, 0)
    ELSE IF Len(item_title) = 0 THEN Abort(db, "IntegrityError")
    ELSE Done([db EXCEPT !.museum_item =
                  {IF x.item_id = item_id
                   THEN [x EXCEPT !.item_title = item_title]
                   ELSE x : x \in @}], 0)

\* Trigger prevent_item_deletion_with_history.
DeleteItem(db, item_id) ==
    IF /\ item_id \in ItemIds(db)
       /\ \E r \in db.item_maintenance : r.item_ref = item_id
    THEN Abort(db, "IntegrityError")
    ELSE Done([db EXCEPT !.museum_item = {x \in @ : x.item_id # item_id}], 0)

\* Mutant: the table has no CHECK on the maintenance date.
InsertMaintenance_undated(db, fk, item_ref, maintenance_type, maintenance_date, specialist_name, cost) ==
    IF Len(maintenance_type) = 0 THEN Abort(db, "IntegrityError")
    ELSE IF strict_checks THEN Abort(db, "OperationalError")
    ELSE IF \/ (cost # <<>> /\ cost[1] < 0)
            \/ (fk /\ item_ref \notin ItemIds(db))
    THEN Abort(db, "IntegrityError")
    ELSE LET id == NextId(db, "item_maintenance", MaintenanceIds(db))
             row == [maintenance_id |-> id, item_ref |-> item_ref,
                     maintenance_type |-> maintenance_type,
                     maintenance_date |-> maintenance_date,
                     specialist_name |-> specialist_name, cost |-> cost]
         IN Done([db EXCEPT !.item_maintenance = @ \cup {row},
                            !.seq["item_maintenance"] = id], id)

InsertMaintenance(db, fk, item_ref, maintenance_type, maintenance_date, specialist_name, cost) ==
    IF Len(maintenance_type) = 0 THEN Abort(db, "IntegrityError")
    ELSE IF strict_checks THEN Abort(db, "OperationalError")
    ELSE IF \/ maintenance_date > now
            \/ (cost # <<>> /\ cost[1] < 0)
            \/ (fk /\ item_ref \notin ItemIds(db))
    THEN Abort(db, "IntegrityError")
    ELSE LET id == NextId(db, "item_maintenance", MaintenanceIds(db))
             row == [maintenance_id |-> id, item_ref |-> item_ref,
                     maintenance_type |-> maintenance_type,
                     maintenance_date |-> maintenance_date,
                     specialist_name |-> specialist_name, cost |-> cost]
         IN Done([db EXCEPT !.item_maintenance = @ \cup {row},
                            !.seq["item_maintenance"] = id], id)

UpdateMaintenanceType(db, maintenance_id, maintenance_type) ==
    IF maintenance_id \notin MaintenanceIds(db) THEN Done(db, 0)
    ELSE IF Len(maintenance_type) = 0 THEN Abort(db, "IntegrityError")
    ELSE Done([db EXCEPT !.item_maintenance =
                  {IF r.maintenance_id = maintenance_id
                   THEN [r EXCEPT !.maintenance_type = maintenance_type]
                   ELSE r : r \in @}], 0)

DeleteMaintenance(db, maintenance_id) ==
    Done([db EXCEPT !.item_maintenance =
             {r \in @ : r.maintenance_id # maintenance_id}], 0)

InsertGuest(db, guest_name, contact_email, membership_type) ==
    IF \/ Len(guest_name) = 0
       \/ ~email_like(contact_email)
       \/ \E g \in db.guest : g.contact_email = contact_email
       \/ (membership_type # <<>> /\ membership_type[1] \notin Memberships)
    THEN Abort(db, "IntegrityError")
    ELSE LET id == NextId(db, "guest", GuestIds(db))
             row == [guest_id |-> id, guest_name |-> guest_name,
                     contact_email |-> contact_email,
                     membership_type |-> membership_type]
         IN Done([db EXCEPT !.guest = @ \cup {row}, !.seq["guest"] = id], id)

UpdateGuestEmail(db, guest_id, contact_email) ==
    IF guest_id \notin GuestIds(db) THEN Done(db, 0)
    ELSE IF \/ ~email_like(contact_email)
            \/ \E g \in db.guest : /\ g.guest_id # guest_id
                                   /\ g.contact_email = contact_email
    THEN Abort(db, "IntegrityError")
    ELSE Done([db EXCEPT !.guest =
                  {IF g.guest_id = guest_id
                   THEN [g EXCEPT !.contact_email = contact_email]
                   ELSE g : g \in @}], 0)

DeleteGuest(db, guest_id) ==
    Done([db EXCEPT !.guest = {g \in @ : g.guest_id # guest_id}], 0)

\* Trigger validate_visit_date runs before the constraints of the row.
InsertVisit(db, fk, guest_ref, museum_ref, visit_date, ticket_price, rating) ==
    IF visit_date > now THEN Abort(db, "IntegrityError")
    ELSE IF strict_checks THEN Abort(db, "OperationalError")
    ELSE IF \/ (ticket_price # <<>> /\ ticket_price[1] < 0)
            \/ (rating # <<>> /\ rating[1] \notin 1..5)
            \/ (fk /\ guest_ref \notin GuestIds(db))
            \/ (fk /\ museum_ref \notin MuseumIds(db))
    THEN Abort(db, "IntegrityError")
    ELSE LET id == NextId(db, "guest_visit", VisitIds(db))
             row == [visit_id |-> id, guest_ref |-> guest_ref,
                     museum_ref |-> museum_ref, visit_date |-> visit_date,
                     ticket_price |-> ticket_price, rating |-> rating]
         IN Done([db EXCEPT !.guest_visit = @ \cup {row},
                            !.seq["guest_visit"] = id], id)

UpdateVisitDate(db, visit_id, visit_date) ==
    IF visit_id \notin VisitIds(db) THEN Done(db, 0)
    ELSE IF strict_checks THEN Abort(db, "OperationalError")
    ELSE IF visit_date > now THEN Abort(db, "IntegrityError")
    ELSE Done([db EXCEPT !.guest_visit =
                  {IF v.visit_id = visit_id
                   THEN [v EXCEPT !.visit_date = visit_date]
                   ELSE v : v \in @}], 0)

DeleteVisit(db, visit_id) ==
    Done([db EXCEPT !.guest_visit = {v \in @ : v.visit_id # visit_id}], 0)

(***************************************************************************)
(* AuthenticationDAL and AuthenticationService.                            *)
(***************************************************************************)
\* Mutant: the ranks of viewer and curator exchanged.
role_hierarchy_swapped(role) ==
    CASE role = "viewer" -> 2
      [] role = "curator" -> 1
      [] role = "admin" -> 3
      [] OTHER -> 0

role_hierarchy(role) ==
    CASE role = "viewer" -> 1
      [] role = "curator" -> 2
      [] role = "admin" -> 3
      [] OTHER -> 0

\* Mutant: a strict comparison of the ranks.
check_permission_strict(user_role, required_role) ==
    role_hierarchy(user_role) > role_hierarchy(required_role)

check_permission(user_role, required_role) ==
    role_hierarchy(user_role) >= role_hierarchy(required_role)

check_access(user_role, required_role) ==
    check_permission(user_role, required_role)

\* Mutant: the is_active filter of the query dropped.
authenticate_user_inactive(db, username, password) ==
    LET password_hash == hash_password(password)
        result == {u \in db.users : /\ u.username = username
                                    /\ u.password_hash = password_hash}
    IN IF result # {}
       THEN LET user == CHOOSE u \in result : TRUE
                w == execute_write(db, UpdateLastLogin(db, user.user_id))
            IN Ok(w.db, [user_id |-> user.user_id, username |-> user.username,
                         role |-> user.role, is_active |-> user.is_active])
       ELSE Ok(db, <<>>)

authenticate_user(db, username, password) ==
    LET password_hash == hash_password(password)
        result == {u \in db.users : /\ u.username = username
                                    /\ u.password_hash = password_hash
                                    /\ u.is_active = 1}
    IN IF result # {}
       THEN LET user == CHOOSE u \in result : TRUE
                w == execute_write(db, UpdateLastLogin(db, user.user_id))
            IN Ok(w.db, [user_id |-> user.user_id, username |-> user.username,
                         role |-> user.role, is_active |-> user.is_active])
       ELSE Ok(db, <<>>)

login(db, username, password) ==
    IF username = "" \/ password = ""
    THEN Raise(db, "ValueError", "Username and password are required")
    ELSE LET r == authenticate_user(db, username, password)
         IN IF r.ret = <<>>
            THEN Raise(db, "ValueError", "Invalid username or password")
            ELSE r

\* AuthenticationDAL.create_user; the service's DAL is built without a user
\* id, which is the acting user 0 (None) here.
create_user(db, user_id, username, password, role) ==
    IF role \notin RoleNames
    THEN Raise(db, "ValueError", "Invalid role")
    ELSE LET w == execute_write(db, InsertUser(db, username,
                                               hash_password(password), role))
         IN Audited(w, user_id, "users", "INSERT", w.ret,
                    <<"Created user", username>>)

\* Mutant: the password length check off by one.
create_new_user_short(db, username, password, role, requester_role) ==
    IF ~check_permission(requester_role, "admin")
    THEN Raise(db, "PermissionError", "Only administrators can create users")
    ELSE IF Len(password) < 7
    THEN Raise(db, "ValueError", "Password must be at least 8 characters")
    ELSE IF Len(username) < 3
    THEN Raise(db, "ValueError", "Username must be at least 3 characters")
    ELSE create_user(db, 0, username, password, role)

create_new_user(db, username, password, role, requester_role) ==
    IF ~check_permission(requester_role, "admin")
    THEN Raise(db, "PermissionError", "Only administrators can create users")
    ELSE IF Len(password) < 8
    THEN Raise(db, "ValueError", "Password must be at least 8 characters")
    ELSE IF Len(username) < 3
    THEN Raise(db, "ValueError", "Username must be at least 3 characters")
    ELSE create_user(db, 0, username, password, role)

(***************************************************************************)
(* MuseumRepository and MuseumService.  An optional keyword argument is    *)
(* <<>> when it is not passed and <<v>> when it is.                        *)
(***************************************************************************)
Returning(r, ret) == IF r.exc = "" THEN Ok(r.db, ret) ELSE r

add_museum(db, user_id, name, city) ==
    IF Len(strip(name)) = 0
    THEN Raise(db, "ValueError", "Museum name cannot be empty")
    ELSE IF Len(strip(city)) = 0
    THEN Raise(db, "ValueError", "City cannot be empty")
    ELSE LET w == execute_write(db, InsertMuseum(db, strip(name), strip(city)))
         IN Audited(w, user_id, "museum", "INSERT", w.ret,
                    <<"Added museum", name>>)

update_museum(db, user_id, museum_id, name, city) ==
    LET w == execute_write(db, UpdateMuseum(db, museum_id, name, city))
    IN Returning(Audited(w, user_id, "museum", "UPDATE", museum_id,
                         <<"Updated museum", name>>), <<>>)

Digits == {"0", "1", "2", "3", "4", "5", "6", "7", "8", "9"}
PhonePattern == Digits \cup {" ", "-", "+", "(", ")"}
PhoneRemoved == {" ", "-", "(", ")"}

validate_phone(phone) ==
    /\ Len(phone) > 0
    /\ \A i \in 1..Len(phone) : phone[i] \in PhonePattern
    /\ Cardinality({i \in 1..Len(phone) : phone[i] \notin PhoneRemoved}) >= 10

create_museum(db, user_id, name, city, phone) ==
    IF \E m \in db.museum : m.museum_name = name /\ m.city = city
    THEN Raise(db, "ValueError", "Museum already exists")
    ELSE IF phone # <<>> /\ phone[1] # <<>> /\ ~validate_phone(phone[1])
    THEN Raise(db, "ValueError", "Invalid phone number format")
    ELSE add_museum(db, user_id, name, city)

(***************************************************************************)
(* ExhibitRepository and ExhibitService.                                   *)
(***************************************************************************)
repo_add_exhibit(db, user_id, museum_id, title, date, condition, value) ==
    IF Len(strip(title)) = 0
    THEN Raise(db, "ValueError", "Exhibit title cannot be empty")
    ELSE IF value < 0
    THEN Raise(db, "ValueError", "Exhibit value cannot be negative")
    ELSE LET w == execute_write(db, InsertItem(db, TRUE, museum_id,
                                               strip(title), date,
                                               <<condition>>, <<value>>))
         IN Audited(w, user_id, "museum_item", "INSERT", w.ret,
                    <<"Added exhibit", title>>)

\* Mutant: the date check lets tomorrow through.
add_exhibit_tomorrow(db, user_id, museum_id, title, date_acquired, condition, value) ==
    IF date_acquired > now + 1
    THEN Raise(db, "ValueError", "Acquisition date cannot be in the future")
    ELSE IF /\ (IF value = <<>> THEN 0 ELSE value[1]) > 10000
            /\ (condition = <<>> \/ condition[1] = "")
    THEN Raise(db, "ValueError", "High-value items must have condition")
    ELSE repo_add_exhibit(db, user_id, museum_id, title, date_acquired,
                          IF condition = <<>> THEN "Good" ELSE condition[1],
                          IF value = <<>> THEN 0 ELSE value[1])

\* Mutant: the high-value rule is missing.
add_exhibit_unchecked(db, user_id, museum_id, title, date_acquired, condition, value) ==
    IF date_acquired > now
    THEN Raise(db, "ValueError", "Acquisition date cannot be in the future")
    ELSE repo_add_exhibit(db, user_id, museum_id, title, date_acquired,
                          IF condition = <<>> THEN "Good" ELSE condition[1],
                          IF value = <<>> THEN 0 ELSE value[1])

\* Mutant: the high-value rule is checked after the exhibit is written.
add_exhibit_late(db, user_id, museum_id, title, date_acquired, condition, value) ==
    IF date_acquired > now
    THEN Raise(db, "ValueError", "Acquisition date cannot be in the future")
    ELSE LET r == repo_add_exhibit(db, user_id, museum_id, title,
                      date_acquired,
                      IF condition = <<>> THEN "Good" ELSE condition[1],
                      IF value = <<>> THEN 0 ELSE value[1])
         IN IF /\ (IF value = <<>> THEN 0 ELSE value[1]) > 10000
               /\ (condition = <<>> \/ condition[1] = "")
            THEN Raise(r.db, "ValueError",
                       "High-value items must have condition")
            ELSE r

add_exhibit(db, user_id, museum_id, title, date_acquired, condition, value) ==
    IF date_acquired > now
    THEN Raise(db, "ValueError", "Acquisition date cannot be in the future")
    ELSE IF /\ (IF value = <<>> THEN 0 ELSE value[1]) > 10000
            /\ (condition = <<>> \/ condition[1] = "")
    THEN Raise(db, "ValueError", "High-value items must have condition")
    ELSE repo_add_exhibit(db, user_id, museum_id, title, date_acquired,
                          IF condition = <<>> THEN "Good" ELSE condition[1],
                          IF value = <<>> THEN 0 ELSE value[1])

\* Mutant: the condition is left to the CHECK constraint of the table.
update_exhibit_condition_unchecked(db, user_id, exhibit_id, condition) ==
    LET w == execute_write(db, UpdateItemCondition(db, exhibit_id, condition))
    IN Returning(Audited(w, user_id, "museum_item", "UPDATE", exhibit_id,
                         <<"Updated condition to", condition>>), <<>>)

update_exhibit_condition(db, user_id, exhibit_id, condition) ==
    IF condition \notin Conditions
    THEN Raise(db, "ValueError", "Invalid condition")
    ELSE LET w == execute_write(db, UpdateItemCondition(db, exhibit_id,
                                                        condition))
         IN Returning(Audited(w, user_id, "museum_item", "UPDATE", exhibit_id,
                              <<"Updated condition to", condition>>), <<>>)

flag_for_restoration(db, user_id, exhibit_id) ==
    update_exhibit_condition(db, user_id, exhibit_id, "Restoration Required")

(***************************************************************************)
(* VisitorRepository and VisitorService.                                   *)
(***************************************************************************)
repo_register_visitor(db, user_id, name, email, membership) ==
    IF Len(email) = 0 \/ ~Has(email, "@") \/ ~Has(email, ".")
    THEN Raise(db, "ValueError", "Invalid email address format")
    ELSE IF Len(strip(name)) = 0
    THEN Raise(db, "ValueError", "Visitor name cannot be empty")
    ELSE LET w == execute_write(db, InsertGuest(db, strip(name), lower(email),
                                                <<membership>>))
         IN Audited(w, user_id, "guest", "INSERT", w.ret,
                    <<"Registered visitor", name>>)

\* Mutant: the lookup compares the e-mail as it was typed.
get_visitor_by_email_exact(db, email) ==
    {g \in db.guest : g.contact_email = email}

get_visitor_by_email(db, email) ==
    {g \in db.guest : g.contact_email = lower(email)}

register_visitor(db, user_id, name, email, membership) ==
    IF get_visitor_by_email(db, email) # {}
    THEN Raise(db, "ValueError", "Visitor already registered")
    ELSE repo_register_visitor(db, user_id, name, email,
                               IF membership = <<>> THEN "None"
                               ELSE membership[1])

repo_log_visit(db, user_id, visitor_id, museum_id, date, ticket_price, rating) ==
    IF rating # <<>> /\ (rating[1] < 1 \/ rating[1] > 5)
    THEN Raise(db, "ValueError", "Rating must be between 1 and 5")
    ELSE IF ticket_price < 0
    THEN Raise(db, "ValueError", "Ticket price cannot be negative")
    ELSE LET w == execute_write(db, InsertVisit(db, TRUE, visitor_id,
                                                museum_id, date,
                                                <<ticket_price>>, rating))
         IN Audited(w, user_id, "guest_visit", "INSERT", w.ret,
                    <<"Logged visit for visitor", visitor_id>>)

base_price == 1500

\* Mutant: no membership type earns a discount.
discount_rates_none(membership_type) == 0

discount_rates(membership_type) ==
    CASE membership_type = "None" -> 0
      [] membership_type = "Basic" -> 10
      [] membership_type = "Premium" -> 25
      [] membership_type = "Family" -> 30
      [] OTHER -> 0

log_visit_with_pricing(db, user_id, visitor_id, museum_id, visit_date, membership_type, rating) ==
    LET discount == discount_rates(membership_type)
        ticket_price == (base_price * (100 - discount)) \div 100
    IN repo_log_visit(db, user_id, visitor_id, museum_id, visit_date,
                      ticket_price, rating)

(***************************************************************************)
(* MaintenanceRepository and MaintenanceService.                           *)
(***************************************************************************)
add_maintenance(db, user_id, item_id, action, date, specialist, cost) ==
    IF Len(strip(action)) = 0
    THEN Raise(db, "ValueError", "Maintenance type cannot be empty")
    ELSE IF Len(strip(specialist)) = 0
    THEN Raise(db, "ValueError", "Specialist name cannot be empty")
    ELSE IF cost < 0
    THEN Raise(db, "ValueError", "Maintenance cost cannot be negative")
    ELSE LET w == execute_write(db, InsertMaintenance(db, TRUE, item_id,
                                                      strip(action), date,
                                                      strip(specialist),
                                                      <<cost>>))
         IN Audited(w, user_id, "item_maintenance", "INSERT", w.ret,
                    <<"Added maintenance for item", item_id>>)

advance_days == 365

\* Mutant: the scheduling horizon is not checked.
schedule_maintenance_unchecked(db, user_id, item_id, action, date, specialist, cost) ==
    add_maintenance(db, user_id, item_id, action, date, specialist,
                    IF cost = <<>> THEN 0 ELSE cost[1])

schedule_maintenance(db, user_id, item_id, action, date, specialist, cost) ==
    IF date > now + advance_days
    THEN Raise(db, "ValueError", "Cannot schedule maintenance more than 1 year in advance")
    ELSE add_maintenance(db, user_id, item_id, action, date, specialist,
                         IF cost = <<>> THEN 0 ELSE cost[1])

\* MaintenanceRepository.maintenance_summary: one row for each exhibit that
\* has maintenance records and a museum, here by exhibit id; the rows hold
\* the columns of the SELECT.  SUM skips NULL and is NULL without a number.
RECURSIVE sum_cost(_)
sum_cost(records) ==
    IF records = {} THEN 0
    ELSE LET r == CHOOSE q \in records : TRUE
         IN (IF r.cost = <<>> THEN 0 ELSE r.cost[1])
            + sum_cost(records \ {r})

maintenance_summary(db) ==
    LET of(x) == {r \in db.item_maintenance : r.item_ref = x.item_id}
        grouped == {x \in db.museum_item :
                       of(x) # {} /\ x.museum_ref \in MuseumIds(db)}
        dates(x) == {r.maintenance_date : r \in of(x)}
    IN [item_id \in {x.item_id : x \in grouped} |->
          LET x == CHOOSE y \in grouped : y.item_id = item_id
              m == CHOOSE y \in db.museum : y.id = x.museum_ref
          IN [item_title |-> x.item_title,
              museum_name |-> m.museum_name,
              total_actions |-> Cardinality(of(x)),
              total_cost |-> IF \A r \in of(x) : r.cost = <<>> THEN <<>>
                             ELSE <<sum_cost(of(x))>>,
              last_maintenance |-> SetMax(dates(x)),
              first_maintenance |->
                  CHOOSE d \in dates(x) : \A e \in dates(x) : d <= e]]

min(a, b) == IF a < b THEN a ELSE b

\* round(x, 2) of x = num / den hundredths: the nearest hundredth, a tie
\* going to the even one.
round(num, den) ==
    LET q == num \div den
        r == num % den
    IN IF 2 * r > den \/ (2 * r = den /\ q % 2 = 1) THEN q + 1 ELSE q

(***************************************************************************)
(* The maintenance plan.  julianday('now') - julianday(date) is a number   *)
(* of days with a fraction, the time of day; it is counted in eighths of a *)
(* day.  Priority scores are counted in four-hundredths, so that           *)
(* days_since / 50 is days_since in eighths; the reported score is in      *)
(* hundredths.                                                             *)
(***************************************************************************)
\* One row of the overdue query for an exhibit: the date of its most recent
\* maintenance and the time since, both NULL without maintenance.
overdue_row(db, item_id, time_of_day) ==
    LET dates == {r.maintenance_date :
                     r \in {m \in db.item_maintenance : m.item_ref = item_id}}
    IN [item_id |-> item_id,
        last_maintenance |-> IF dates = {} THEN <<>> ELSE <<SetMax(dates)>>,
        days_since |-> IF dates = {} THEN <<>>
                       ELSE <<8 * (now - SetMax(dates)) + time_of_day>>]

\* ORDER BY days_since DESC: NULL sorts after every number; the order of
\* rows with equal days_since is not determined.
order_by_days_since_desc(rows) ==
    {f \in [1..Cardinality(rows) -> rows] :
        /\ \A i, j \in DOMAIN f : i # j => f[i] # f[j]
        /\ \A i, j \in DOMAIN f :
              i < j => \/ f[j].days_since = <<>>
                       \/ /\ f[i].days_since # <<>>
                          /\ f[i].days_since[1] >= f[j].days_since[1]}

\* Mutant: exhibits without maintenance are left out.
get_overdue_maintenance_maintained(db, days, time_of_day) ==
    order_by_days_since_desc(
        {row \in {overdue_row(db, x.item_id, time_of_day) :
                     x \in {y \in db.museum_item :
                               y.museum_ref \in MuseumIds(db)}} :
            row.days_since # <<>> /\ row.days_since[1] > 8 * days})

\* MaintenanceRepository.get_overdue_maintenance: the possible results.
get_overdue_maintenance(db, days, time_of_day) ==
    order_by_days_since_desc(
        {row \in {overdue_row(db, x.item_id, time_of_day) :
                     x \in {y \in db.museum_item :
                               y.museum_ref \in MuseumIds(db)}} :
            row.days_since = <<>> \/ row.days_since[1] > 8 * days})

\* The priority score before rounding, in four-hundredths.
priority_score(condition, value, days_since) ==
    (IF condition = <<"Poor">> \/ condition = <<"Restoration Required">>
     THEN 20000
     ELSE IF condition = <<"Fair">> THEN 12000 ELSE 0)
    + (IF value > 10000 THEN 12000 ELSE IF value > 5000 THEN 8000 ELSE 0)
    + min(8000, IF days_since = <<>> \/ days_since[1] = 0
                THEN 8 * 999 ELSE days_since[1])

get_urgency_level(score) ==
    IF score >= 32000 THEN "CRITICAL"
    ELSE IF score >= 24000 THEN "HIGH"
    ELSE IF score >= 16000 THEN "MEDIUM"
    ELSE "LOW"

plan_item(db, item) ==
    LET exhibit == CHOOSE x \in db.museum_item : x.item_id = item.item_id
        value == IF exhibit.value = <<>> THEN 0 ELSE exhibit.value[1]
        score == priority_score(exhibit.condition, value, item.days_since)
    IN [item_id |-> item.item_id, days_since |-> item.days_since,
        condition |-> exhibit.condition, value |-> value,
        priority_score |-> round(score, 4),
        urgency |-> get_urgency_level(score)]

\* Mutant: an item goes in front of the items with an equal score.
insert_unstable(plan, x) ==
    LET n == Cardinality({i \in 1..Len(plan) :
                            plan[i].priority_score > x.priority_score})
    IN SubSeq(plan, 1, n) \o <<x>> \o SubSeq(plan, n + 1, Len(plan))

\* One step of sorted(plan, key=priority_score, reverse=True): the item goes
\* behind every item whose score is as large.
insert(plan, x) ==
    LET n == Cardinality({i \in 1..Len(plan) :
                            plan[i].priority_score >= x.priority_score})
    IN SubSeq(plan, 1, n) \o <<x>> \o SubSeq(plan, n + 1, Len(plan))

RECURSIVE sorted(_)
sorted(plan) ==
    IF Len(plan) = 0 THEN <<>>
    ELSE insert(sorted(SubSeq(plan, 1, Len(plan) - 1)), plan[Len(plan)])

generate_maintenance_plan(db, overdue) ==
    sorted([i \in 1..Len(overdue) |-> plan_item(db, overdue[i])])

(***************************************************************************)
(* MuseumService._calculate_performance_score.  Scores are counted in      *)
(* hundredths; an average rating is the sum of the ratings over their      *)
(* count, as AVG(gv.rating) computes it.                                   *)
(***************************************************************************)
\* Mutant: the visit component is not clamped.
calculate_performance_score_unclamped(stats) ==
    LET exhibits == IF stats.total_exhibits > 0
                    THEN 100 * min(30, stats.total_exhibits * 2) ELSE 0
        visits == IF stats.total_visits > 0
                  THEN stats.total_visits * 50 ELSE 0
        avg == stats.avg_rating
    IN IF avg # <<>> /\ avg[1].sum # 0
       THEN round((exhibits + visits) * avg[1].count + 600 * avg[1].sum,
                  avg[1].count)
       ELSE exhibits + visits

calculate_performance_score(stats) ==
    LET exhibits == IF stats.total_exhibits > 0
                    THEN 100 * min(30, stats.total_exhibits * 2) ELSE 0
        visits == IF stats.total_visits > 0
                  THEN min(4000, stats.total_visits * 50) ELSE 0
        avg == stats.avg_rating
    IN IF avg # <<>> /\ avg[1].sum # 0
       THEN round((exhibits + visits) * avg[1].count + 600 * avg[1].sum,
                  avg[1].count)
       ELSE exhibits + visits

(***************************************************************************)
(* The simple CRUD variant, MuseumDB: no validation, no audit, foreign     *)
(* keys not enforced, database errors raised as they are.                  *)
(***************************************************************************)
MuseumDB_execute_write(db, stmt) ==
    IF stmt.err = "" THEN Ok(stmt.db, <<>>)
    ELSE Raise(db, stmt.err, "sqlite3")

MuseumDB_add_museum(db, museum_name, city) ==
    MuseumDB_execute_write(db,
        OrIgnore(db, "museum", MuseumIds(db),
                 InsertMuseum(db, museum_name, city)))

MuseumDB_modify_museum(db, museum_id, new_name, new_city) ==
    MuseumDB_execute_write(db, UpdateMuseum(db, museum_id, new_name, new_city))

MuseumDB_remove_museum(db, museum_id) ==
    MuseumDB_execute_write(db, DeleteMuseum(db, museum_id))

MuseumDB_add_exhibit(db, museum_id, title, acquisition_date) ==
    MuseumDB_execute_write(db,
        InsertItem(db, FALSE, museum_id, title, acquisition_date, <<>>, <<>>))

MuseumDB_rename_exhibit(db, exhibit_id, new_title) ==
    MuseumDB_execute_write(db, UpdateItemTitle(db, exhibit_id, new_title))

MuseumDB_remove_exhibit(db, exhibit_id) ==
    MuseumDB_execute_write(db, DeleteItem(db, exhibit_id))

MuseumDB_record_maintenance(db, exhibit_id, action, date, specialist) ==
    MuseumDB_execute_write(db,
        InsertMaintenance(db, FALSE, exhibit_id, action, date, specialist,
                          <<>>))

MuseumDB_update_maintenance_action(db, maintenance_id, new_action) ==
    MuseumDB_execute_write(db,
        UpdateMaintenanceType(db, maintenance_id, new_action))

MuseumDB_delete_maintenance_record(db, maintenance_id) ==
    MuseumDB_execute_write(db, DeleteMaintenance(db, maintenance_id))

MuseumDB_register_visitor(db, name, email) ==
    MuseumDB_execute_write(db,
        OrIgnore(db, "guest", GuestIds(db), InsertGuest(db, name, email, <<>>)))

MuseumDB_update_visitor_email(db, visitor_id, new_email) ==
    MuseumDB_execute_write(db, UpdateGuestEmail(db, visitor_id, new_email))

MuseumDB_delete_visitor(db, visitor_id) ==
    MuseumDB_execute_write(db, DeleteGuest(db, visitor_id))

MuseumDB_log_visit(db, visitor_id, museum_id, date) ==
    MuseumDB_execute_write(db,
        InsertVisit(db, FALSE, visitor_id, museum_id, date, <<>>, <<>>))

MuseumDB_change_visit_date(db, visit_id, new_date) ==
    MuseumDB_execute_write(db, UpdateVisitDate(db, visit_id, new_date))

MuseumDB_remove_visit(db, visit_id) ==
    MuseumDB_execute_write(db, DeleteVisit(db, visit_id))

(***************************************************************************)
(* The reset utility: empties the five entity tables and every             *)
(* AUTOINCREMENT counter in one transaction; users and audit_log keep      *)
(* their rows.                                                             *)
(***************************************************************************)
\* Mutant: the reset empties the audit log as well.
clear_database_contents_all(db) ==
    Ok([db EXCEPT !.guest_visit = {}, !.item_maintenance = {},
                  !.museum_item = {}, !.guest = {}, !.museum = {},
                  !.audit_log = <<>>,
                  !.seq = [t \in Tables |-> 0]], <<>>)

clear_database_contents(db) ==
    Ok([db EXCEPT !.guest_visit = {}, !.item_maintenance = {},
                  !.museum_item = {}, !.guest = {}, !.museum = {},
                  !.seq = [t \in Tables |-> 0]], <<>>)

(***************************************************************************)
(* Inputs.                                                                 *)
(***************************************************************************)
LoginUsernames == {"", "bob", "admin", "old"}
LoginPasswords == {"", "admin12", "admin123"}
NewUsernames == {"ab", "bob", "admin"}
NewPasswords == {"admin12", "admin123"}
Roles == RoleNames \cup {"guest"}

(***************************************************************************)
(* Initial state: the schema with the default admin of database.py.  A     *)
(* store that has been in use may also hold an account whose is_active     *)
(* flag was cleared (no application code clears it; the column exists for  *)
(* the store's administrator).                                             *)
(***************************************************************************)
DefaultAdmin ==
    [user_id |-> 1, username |-> "admin",
     password_hash |-> hash_password("admin123"), role |-> "admin",
     is_active |-> 1, last_login |-> <<>>]

DeactivatedUser ==
    [user_id |-> 2, username |-> "old",
     password_hash |-> hash_password("admin123"), role |-> "curator",
     is_active |-> 0, last_login |-> <<>>]

\* No call is in progress: control is with the caller.
Idle == [op |-> "idle", args |-> <<>>, exc |-> "", msg |-> "", ret |-> <<>>]

\* MuseumApplication.__init__, before run(): nobody is logged in and no
\* service exists.
Stopped ==
    /\ pc = "off"
    /\ attempts = 0
    /\ current_user = <<>>
    /\ services = <<>>

Init ==
    /\ users = {DefaultAdmin}
    /\ audit_log = <<>>
    /\ museum = {}
    /\ museum_item = {}
    /\ item_maintenance = {}
    /\ guest = {}
    /\ guest_visit = {}
    /\ sqlite_sequence = [t \in Tables |-> IF t = "users" THEN 1 ELSE 0]
    /\ now = 0
    /\ strict_checks \in BOOLEAN
    /\ last = Idle
    /\ Stopped

\* The same store after some use: an account has been deactivated.
InitUsed ==
    /\ users = {DefaultAdmin, DeactivatedUser}
    /\ audit_log = <<>>
    /\ museum = {}
    /\ museum_item = {}
    /\ item_maintenance = {}
    /\ guest = {}
    /\ guest_visit = {}
    /\ sqlite_sequence = [t \in Tables |-> IF t = "users" THEN 2 ELSE 0]
    /\ now = 0
    /\ strict_checks \in BOOLEAN
    /\ last = Idle
    /\ Stopped

\* A call runs to its end in one step: its outcome becomes the new state and
\* is handed to the caller.
EntityTables == {"museum", "museum_item", "item_maintenance", "guest",
                 "guest_visit"}

TotalRows(db) ==
    Cardinality(db.museum) + Cardinality(db.museum_item)
        + Cardinality(db.item_maintenance) + Cardinality(db.guest)
        + Cardinality(db.guest_visit)

\* The bounds of the model: a call whose outcome would exceed them is not
\* made.
WithinBounds(db) ==
    /\ TotalRows(db) <= MaxRows
    /\ \A t \in EntityTables :
           db.seq[t] <= (IF t = "guest" THEN MaxGuests ELSE MaxId)
    /\ Len(db.audit_log) <= MaxAudit

Call(op, args, out) ==
    /\ WithinBounds(out.db)
    /\ Commit(out.db)
    /\ last' = [op |-> op, args |-> args, exc |-> out.exc, msg |-> out.msg,
                ret |-> out.ret]
    /\ UNCHANGED <<now, strict_checks, session>>

(***************************************************************************)
(* Actions.                                                                *)
(***************************************************************************)
\* The caller takes the outcome; the next call can be made.
Return ==
    /\ last.op # "idle"
    /\ last' = Idle
    /\ UNCHANGED <<store, now, strict_checks, session>>

\* Time passes between calls.
Tick ==
    /\ last.op = "idle"
    /\ now < MaxNow
    /\ now' = now + 1
    /\ UNCHANGED <<store, strict_checks, last, session>>

Login ==
    /\ last.op = "idle"
    /\ \E username \in LoginUsernames, password \in LoginPasswords :
           Call("login", [username |-> username, password |-> password],
                login(DB, username, password))

CreateNewUser(N, P, R, Q) ==
    /\ last.op = "idle"
    /\ \E username \in N, password \in P, role \in R, requester_role \in Q :
           Call("create_new_user",
                [username |-> username, password |-> password, role |-> role,
                 requester_role |-> requester_role],
                create_new_user(DB, username, password, role, requester_role))

CheckAccess ==
    /\ last.op = "idle"
    /\ \E user_role \in Roles, required_role \in Roles :
           Call("check_access",
                [user_role |-> user_role, required_role |-> required_role],
                Ok(DB, check_access(user_role, required_role)))

NextAuth ==
    \/ Return
    \/ Tick
    \/ Login
    \/ CreateNewUser(NewUsernames, NewPasswords, Roles, Roles)
    \/ CheckAccess

SpecAuth == (Init \/ InitUsed) /\ [][NextAuth]_vars

(***************************************************************************)
(* The entity services.  Each action is one call of a service built for    *)
(* the acting user user_id (0: built without one); dates are given as      *)
(* offsets from the current day.                                           *)
(***************************************************************************)
CreateMuseum(U, N, C, P) ==
    /\ last.op = "idle"
    /\ \E user_id \in U, name \in N, city \in C, phone \in P :
           Call("create_museum",
                [user_id |-> user_id, name |-> name, city |-> city,
                 phone |-> phone],
                create_museum(DB, user_id, name, city, phone))

AddExhibit(U, M, T, D, K, V) ==
    /\ last.op = "idle"
    /\ \E user_id \in U, museum_id \in M, title \in T, d \in D,
          condition \in K, value \in V :
           Call("add_exhibit",
                [user_id |-> user_id, museum_id |-> museum_id,
                 title |-> title, date_acquired |-> now + d,
                 condition |-> condition, value |-> value],
                add_exhibit(DB, user_id, museum_id, title, now + d,
                            condition, value))

UpdateExhibitCondition(U, X, K) ==
    /\ last.op = "idle"
    /\ \E user_id \in U, exhibit_id \in X, condition \in K :
           Call("update_exhibit_condition",
                [user_id |-> user_id, exhibit_id |-> exhibit_id,
                 condition |-> condition],
                update_exhibit_condition(DB, user_id, exhibit_id, condition))

FlagForRestoration(U, X) ==
    /\ last.op = "idle"
    /\ \E user_id \in U, exhibit_id \in X :
           Call("flag_for_restoration",
                [user_id |-> user_id, exhibit_id |-> exhibit_id],
                flag_for_restoration(DB, user_id, exhibit_id))

RegisterVisitor(U, N, E, S) ==
    /\ last.op = "idle"
    /\ \E user_id \in U, name \in N, email \in E, membership \in S :
           Call("register_visitor",
                [user_id |-> user_id, name |-> name, email |-> email,
                 membership |-> membership],
                register_visitor(DB, user_id, name, email, membership))

LogVisitWithPricing(U, G, M, D, S, R) ==
    /\ last.op = "idle"
    /\ \E user_id \in U, visitor_id \in G, museum_id \in M, d \in D,
          membership_type \in S, rating \in R :
           Call("log_visit_with_pricing",
                [user_id |-> user_id, visitor_id |-> visitor_id,
                 museum_id |-> museum_id, visit_date |-> now + d,
                 membership_type |-> membership_type, rating |-> rating],
                log_visit_with_pricing(DB, user_id, visitor_id, museum_id,
                                       now + d, membership_type, rating))

ScheduleMaintenance(U, X, A, D, S, Q) ==
    /\ last.op = "idle"
    /\ \E user_id \in U, item_id \in X, action \in A, d \in D,
          specialist \in S, cost \in Q :
           Call("schedule_maintenance",
                [user_id |-> user_id, item_id |-> item_id, action |-> action,
                 date |-> now + d, specialist |-> specialist, cost |-> cost],
                schedule_maintenance(DB, user_id, item_id, action, now + d,
                                     specialist, cost))

\* The average ratings of up to MaxRatings ratings, each in 1..5, and the
\* absent average of a museum without ratings.
AvgRatings ==
    {<<>>} \cup UNION {{<<[sum |-> s, count |-> n]>> : s \in n..(5 * n)} :
                       n \in 1..MaxRatings}

CalculatePerformanceScore ==
    /\ last.op = "idle"
    /\ \E total_exhibits \in 0..MaxExhibits, total_visits \in 0..MaxVisits,
          avg_rating \in AvgRatings :
           LET stats == [total_exhibits |-> total_exhibits,
                         total_visits |-> total_visits,
                         avg_rating |-> avg_rating]
           IN Call("calculate_performance_score", stats,
                   Ok(DB, calculate_performance_score(stats)))

\* The time of day of a query, in eighths of a day: midnight, 03:00, 21:00.
TimesOfDay == {0, 1, 7}

GenerateMaintenancePlan(T) ==
    /\ last.op = "idle"
    /\ \E days_threshold \in T, time_of_day \in TimesOfDay :
         \E overdue \in get_overdue_maintenance(DB, days_threshold,
                                                time_of_day) :
            last' = [op |-> "generate_maintenance_plan",
                     args |-> [days_threshold |-> days_threshold,
                               time_of_day |-> time_of_day],
                     exc |-> "", msg |-> "",
                     ret |-> [overdue |-> overdue,
                              plan |-> generate_maintenance_plan(DB, overdue)]]
    /\ UNCHANGED <<store, now, strict_checks, session>>

(***************************************************************************)
(* The simple CRUD variant and the reset utility.                          *)
(***************************************************************************)
SimpleAddMuseum(N, C) ==
    /\ last.op = "idle"
    /\ \E name \in N, city \in C :
           Call("MuseumDB.add_museum", [name |-> name, city |-> city],
                MuseumDB_add_museum(DB, name, city))

SimpleModifyMuseum(M, N, C) ==
    /\ last.op = "idle"
    /\ \E museum_id \in M, name \in N, city \in C :
           Call("MuseumDB.modify_museum",
                [museum_id |-> museum_id, name |-> name, city |-> city],
                MuseumDB_modify_museum(DB, museum_id, name, city))

SimpleRemoveMuseum(M) ==
    /\ last.op = "idle"
    /\ \E museum_id \in M :
           Call("MuseumDB.remove_museum", [museum_id |-> museum_id],
                MuseumDB_remove_museum(DB, museum_id))

SimpleAddExhibit(M, T, D) ==
    /\ last.op = "idle"
    /\ \E museum_id \in M, title \in T, d \in D :
           Call("MuseumDB.add_exhibit",
                [museum_id |-> museum_id, title |-> title, date |-> now + d],
                MuseumDB_add_exhibit(DB, museum_id, title, now + d))

SimpleRenameExhibit(X, T) ==
    /\ last.op = "idle"
    /\ \E exhibit_id \in X, title \in T :
           Call("MuseumDB.rename_exhibit",
                [exhibit_id |-> exhibit_id, title |-> title],
                MuseumDB_rename_exhibit(DB, exhibit_id, title))

SimpleRemoveExhibit(X) ==
    /\ last.op = "idle"
    /\ \E exhibit_id \in X :
           Call("MuseumDB.remove_exhibit", [exhibit_id |-> exhibit_id],
                MuseumDB_remove_exhibit(DB, exhibit_id))

SimpleRecordMaintenance(X, A, D, S) ==
    /\ last.op = "idle"
    /\ \E exhibit_id \in X, action \in A, d \in D, specialist \in S :
           Call("MuseumDB.record_maintenance",
                [exhibit_id |-> exhibit_id, action |-> action,
                 date |-> now + d, specialist |-> specialist],
                MuseumDB_record_maintenance(DB, exhibit_id, action, now + d,
                                            specialist))

SimpleUpdateMaintenanceAction(R, A) ==
    /\ last.op = "idle"
    /\ \E maintenance_id \in R, action \in A :
           Call("MuseumDB.update_maintenance_action",
                [maintenance_id |-> maintenance_id, action |-> action],
                MuseumDB_update_maintenance_action(DB, maintenance_id, action))

SimpleDeleteMaintenanceRecord(R) ==
    /\ last.op = "idle"
    /\ \E maintenance_id \in R :
           Call("MuseumDB.delete_maintenance_record",
                [maintenance_id |-> maintenance_id],
                MuseumDB_delete_maintenance_record(DB, maintenance_id))

SimpleRegisterVisitor(N, E) ==
    /\ last.op = "idle"
    /\ \E name \in N, email \in E :
           Call("MuseumDB.register_visitor", [name |-> name, email |-> email],
                MuseumDB_register_visitor(DB, name, email))

SimpleUpdateVisitorEmail(G, E) ==
    /\ last.op = "idle"
    /\ \E visitor_id \in G, email \in E :
           Call("MuseumDB.update_visitor_email",
                [visitor_id |-> visitor_id, email |-> email],
                MuseumDB_update_visitor_email(DB, visitor_id, email))

SimpleDeleteVisitor(G) ==
    /\ last.op = "idle"
    /\ \E visitor_id \in G :
           Call("MuseumDB.delete_visitor", [visitor_id |-> visitor_id],
                MuseumDB_delete_visitor(DB, visitor_id))

SimpleLogVisit(G, M, D) ==
    /\ last.op = "idle"
    /\ \E visitor_id \in G, museum_id \in M, d \in D :
           Call("MuseumDB.log_visit",
                [visitor_id |-> visitor_id, museum_id |-> museum_id,
                 date |-> now + d],
                MuseumDB_log_visit(DB, visitor_id, museum_id, now + d))

SimpleChangeVisitDate(W, D) ==
    /\ last.op = "idle"
    /\ \E visit_id \in W, d \in D :
           Call("MuseumDB.change_visit_date",
                [visit_id |-> visit_id, date |-> now + d],
                MuseumDB_change_visit_date(DB, visit_id, now + d))

SimpleRemoveVisit(W) ==
    /\ last.op = "idle"
    /\ \E visit_id \in W :
           Call("MuseumDB.remove_visit", [visit_id |-> visit_id],
                MuseumDB_remove_visit(DB, visit_id))

ClearDatabaseContents ==
    /\ last.op = "idle"
    /\ Call("clear_database_contents", <<>>, clear_database_contents(DB))

(***************************************************************************)
(* Spec: the calls of the services, on a small choice of arguments that    *)
(* takes each call through its success and through each of its failures;   *)
(* user 2 exists once create_new_user has made it.                         *)
(***************************************************************************)
ActingUsers == {0, 1, 2}
Ids == {1, 2}
Absent == {<<>>}
TextA == <<"A">>
TextB == <<"B">>
Blank == <<" ">>
SpaceA == <<" ", "A">>
CityX == <<"X">>
EmailLower == <<"a", "@", "b", ".", "c">>
EmailUpper == <<"A", "@", "b", ".", "c">>
EmailBad == <<"a", "b">>
PhoneBad == <<"1", "2">>

\* The sets of arguments that the calls below draw from.
NamesPadded == {TextA, SpaceA}
NamesOrBlank == {TextA, Blank}
NamesOrEmpty == {<<>>, TextA}
MuseumNames == {TextA, TextB}
EmailsGoodOrBad == {EmailLower, EmailBad}
RolesRequested == {"viewer", "guest"}
RolesGranted == {"curator", "viewer"}
MembershipsPriced == {"None", "Basic", "Family", "Gold"}
MembershipsTyped == {"None", "Basic"}
ConditionsDefaulted == {<<>>, <<"Good">>}
ConditionsRefused == {<<"">>, <<"Bad">>}
ConditionsTyped == {"Poor", "Bad", "poor", ""}

Services ==
    \/ CreateMuseum(ActingUsers, NamesPadded, {CityX}, Absent)
    \/ CreateMuseum({1}, NamesOrBlank, {CityX}, {<<PhoneBad>>})
    \/ AddExhibit(ActingUsers, {1}, {TextA}, {0}, Absent, Absent)
    \/ AddExhibit({1}, {1}, NamesOrBlank, {0, 1}, Absent, {<<20000>>})
    \/ UpdateExhibitCondition(ActingUsers, {1}, {"Poor"})
    \/ UpdateExhibitCondition({1}, {1}, {"Bad"})
    \/ FlagForRestoration(ActingUsers, {1})
    \/ RegisterVisitor(ActingUsers, {TextA}, {EmailLower}, Absent)
    \/ RegisterVisitor({1}, {Blank}, EmailsGoodOrBad, Absent)
    \/ LogVisitWithPricing(ActingUsers, {1}, {1}, {0}, {"Premium"}, Absent)
    \/ LogVisitWithPricing({1}, {1}, {1}, {0, 1}, {"Premium"}, {<<6>>})
    \/ ScheduleMaintenance(ActingUsers, {1}, {TextA}, {0}, {TextA}, Absent)
    \/ ScheduleMaintenance({1}, {1}, {TextA}, {1, 366}, NamesOrBlank, Absent)

SimpleVariant ==
    \/ SimpleAddMuseum({TextA}, {CityX})
    \/ SimpleModifyMuseum({1}, {TextB}, {CityX})
    \/ SimpleRemoveMuseum(Ids)
    \/ SimpleAddExhibit({1}, {TextA}, {0})
    \/ SimpleRenameExhibit({1}, {TextB})
    \/ SimpleRemoveExhibit(Ids)
    \/ SimpleRecordMaintenance({1}, {TextA}, {0}, {TextA})
    \/ SimpleUpdateMaintenanceAction({1}, {TextB})
    \/ SimpleDeleteMaintenanceRecord(Ids)
    \/ SimpleRegisterVisitor({TextA}, {EmailLower})
    \/ SimpleUpdateVisitorEmail({1}, {EmailUpper})
    \/ SimpleDeleteVisitor(Ids)
    \/ SimpleLogVisit({1}, {1}, {0})
    \/ SimpleChangeVisitDate({1}, {0})
    \/ SimpleRemoveVisit(Ids)

Next ==
    \/ Return
    \/ CreateNewUser({"bob"}, NewPasswords, RolesRequested, {"admin"})
    \/ Services

Spec == Init /\ [][Next]_vars

\* SpecStore: the writers that bypass the services (the simple CRUD variant
\* and the reset utility) next to service calls that leave audit entries.
NextStore ==
    \/ Return
    \/ CreateMuseum({1}, {TextA}, {CityX}, Absent)
    \/ UpdateExhibitCondition({1}, {1}, {"Poor"})
    \/ SimpleVariant
    \/ ClearDatabaseContents

SpecStore == Init /\ [][NextStore]_vars

\* SpecVisitor: the visitor service, with e-mails in both letter cases, every
\* membership type and visit dates around the current day.
EmailOther == <<"b", "@", "b", ".", "c">>
VisitorEmails == {EmailLower, EmailUpper, EmailOther, EmailBad}

NextVisitor ==
    \/ Return
    \/ Tick
    \/ CreateMuseum({0}, {TextA}, {CityX}, Absent)
    \/ RegisterVisitor({0, 1}, {TextA}, VisitorEmails, Absent)
    \/ LogVisitWithPricing({0, 1}, {1}, {1}, {0}, {"Premium"}, Absent)
    \/ LogVisitWithPricing({1}, {1}, {1}, {0, 1}, MembershipsPriced,
                           {<<>>, <<0>>, <<5>>, <<6>>})

SpecVisitor == Init /\ [][NextVisitor]_vars

\* SpecExhibit: the exhibit and maintenance services, with values around
\* the high-value threshold, conditions inside and outside the enum and
\* dates around the current day and the scheduling horizon.
NextExhibit ==
    \/ Return
    \/ Tick
    \/ CreateMuseum({0}, {TextA}, {CityX}, Absent)
    \/ AddExhibit(ActingUsers, {1}, {TextA}, {0, 1}, ConditionsDefaulted,
                  {<<10000>>, <<10001>>})
    \/ AddExhibit({1}, {1, 2}, NamesOrBlank, {0}, ConditionsRefused,
                  {<<>>, <<10001>>})
    \/ UpdateExhibitCondition(ActingUsers, {1}, ConditionsTyped)
    \/ FlagForRestoration(ActingUsers, {1})
    \/ ScheduleMaintenance({0, 1}, {1}, {TextA},
                           {0, 1, advance_days, advance_days + 1}, {TextA},
                           {<<>>, <<100>>})

SpecExhibit == Init /\ [][NextExhibit]_vars

\* SpecMuseum: create_museum with phone numbers of each kind.
PhoneGood == <<"1", "2", "3", "4", "5", "6", "7", "8", "9", "0">>
PhonePlus == <<"+", "1", "2", "3", "4", "5", "6", "7", "8", "9">>
PhoneShort == <<"(", "1", "2", "3", ")", " ", "4", "5", "6", "-", "7", "8">>
PhoneLetters == <<"1", "2", "3", "4", "5", "6", "7", "8", "9", "0", "a">>
MuseumPhones ==
    {<<>>, <<<<>>>>, <<PhoneGood>>, <<PhonePlus>>, <<PhoneShort>>,
     <<PhoneLetters>>}

NextMuseum ==
    \/ Return
    \/ CreateMuseum({0, 1}, MuseumNames, {CityX}, MuseumPhones)

SpecMuseum == Init /\ [][NextMuseum]_vars

\* SpecScore: the performance score of every aggregate within the bounds.
NextScore == Return \/ CalculatePerformanceScore

SpecScore == Init /\ [][NextScore]_vars

\* SpecPlan: the maintenance plan of a store that holds one museum and up
\* to MaxPlanItems exhibits, each added by add_exhibit and maintained by
\* schedule_maintenance calls with dates of the past.
PlanProfiles ==
    {[condition |-> <<"Poor">>, value |-> <<50000>>, ages |-> <<400>>],
     [condition |-> <<"Poor">>, value |-> <<6000>>, ages |-> <<499>>],
     [condition |-> <<>>, value |-> <<>>, ages |-> <<>>],
     [condition |-> <<"Fair">>, value |-> <<10001>>, ages |-> <<400, 10>>],
     [condition |-> <<"Restoration Required">>, value |-> <<5000>>,
      ages |-> <<0>>],
     [condition |-> <<"Excellent">>, value |-> <<5001>>, ages |-> <<1000>>]}

PlanThresholds == {-1, 0, 10, 180}

Fresh ==
    [users |-> {DefaultAdmin}, audit_log |-> <<>>, museum |-> {},
     museum_item |-> {}, item_maintenance |-> {}, guest |-> {},
     guest_visit |-> {},
     seq |-> [t \in Tables |-> IF t = "users" THEN 1 ELSE 0]]

\* The store after schedule_maintenance calls for an exhibit, one for each
\* age, and after add_exhibit and schedule_maintenance calls for each
\* profile.  (Each call's outcome is bound as a value, once.)
RECURSIVE Maintained(_, _, _)
Maintained(db, item_id, ages) ==
    IF ages = <<>> THEN db
    ELSE CHOOSE d \in {Maintained(m.db, item_id, Tail(ages)) :
                          m \in {schedule_maintenance(db, 0, item_id, TextA,
                                                      now - Head(ages), TextA,
                                                      <<>>)}} : TRUE

RECURSIVE Stocked(_, _)
Stocked(db, profiles) ==
    IF profiles = <<>> THEN db
    ELSE CHOOSE d \in {Stocked(m, Tail(profiles)) :
                          m \in {Maintained(a.db, a.ret, Head(profiles).ages) :
                                   a \in {add_exhibit(db, 0, 1, TextA, now,
                                                      Head(profiles).condition,
                                                      Head(profiles).value)}}} :
             TRUE

InitPlan ==
    /\ now = 0
    /\ strict_checks \in BOOLEAN
    /\ last = Idle
    /\ Stopped
    /\ \E n \in 0..MaxPlanItems : \E profiles \in [1..n -> PlanProfiles] :
        \E m \in {create_museum(Fresh, 0, TextA, CityX, <<>>)} :
        \E db \in {Stocked(m.db, profiles)} :
             /\ users = db.users
             /\ audit_log = db.audit_log
             /\ museum = db.museum
             /\ museum_item = db.museum_item
             /\ item_maintenance = db.item_maintenance
             /\ guest = db.guest
             /\ guest_visit = db.guest_visit
             /\ sqlite_sequence = db.seq

NextPlan == Return \/ GenerateMaintenancePlan(PlanThresholds)

SpecPlan == InitPlan /\ [][NextPlan]_vars

(***************************************************************************)
(* The interactive application (presentation_layer.py).  A step is what    *)
(* the program does between two prompts: one round of the login loop, or   *)
(* one choice of the main menu followed through its submenu to the service *)
(* call.  Choices that only read are left out.                             *)
(***************************************************************************)
max_attempts == 3

\* The audit entries of a run of SpecApp.
MaxAppAudit == 4

\* main() and the start of run(): a new MuseumApplication at its login
\* prompt.
Run ==
    /\ last.op = "idle"
    /\ pc = "off"
    /\ pc' = "login"
    /\ attempts' = 0
    /\ current_user' = <<>>
    /\ services' = <<>>
    /\ UNCHANGED <<store, now, strict_checks, last>>

\* Mutant: the loop of login() admits one more round.
AppLogin_extra ==
    /\ last.op = "idle"
    /\ pc = "login"
    /\ attempts <= max_attempts
    /\ \E username \in LoginUsernames, password \in LoginPasswords :
         LET out == login(DB, username, password)
         IN /\ Commit(out.db)
            /\ last' = [op |-> "login",
                        args |-> [username |-> username,
                                  password |-> password],
                        exc |-> out.exc, msg |-> out.msg, ret |-> out.ret]
            /\ IF out.exc = ""
               THEN /\ current_user' = <<out.ret>>
                    /\ services' = <<out.ret.user_id>>
                    /\ pc' = "menu"
                    /\ UNCHANGED attempts
               ELSE IF out.exc = "ValueError"
               THEN /\ attempts' = attempts + 1
                    /\ pc' = IF attempts + 1 <= max_attempts THEN "login"
                             ELSE "off"
                    /\ UNCHANGED <<current_user, services>>
               ELSE /\ pc' = "off"
                    /\ UNCHANGED <<attempts, current_user, services>>
    /\ UNCHANGED <<now, strict_checks>>

\* One round of the loop of MuseumApplication.login and what run() does with
\* its result: on success the user is kept, the services are built with the
\* user's id and the main menu is shown; a ValueError counts as a failed
\* attempt and the last one ends the run; any other exception ends it at
\* once.
AppLogin ==
    /\ last.op = "idle"
    /\ pc = "login"
    /\ attempts < max_attempts
    /\ \E username \in LoginUsernames, password \in LoginPasswords :
         LET out == login(DB, username, password)
         IN /\ Commit(out.db)
            /\ last' = [op |-> "login",
                        args |-> [username |-> username,
                                  password |-> password],
                        exc |-> out.exc, msg |-> out.msg, ret |-> out.ret]
            /\ IF out.exc = ""
               THEN /\ current_user' = <<out.ret>>
                    /\ services' = <<out.ret.user_id>>
                    /\ pc' = "menu"
                    /\ UNCHANGED attempts
               ELSE IF out.exc = "ValueError"
               THEN /\ attempts' = attempts + 1
                    /\ pc' = IF attempts + 1 < max_attempts THEN "login"
                             ELSE "off"
                    /\ UNCHANGED <<current_user, services>>
               ELSE /\ pc' = "off"
                    /\ UNCHANGED <<attempts, current_user, services>>
    /\ UNCHANGED <<now, strict_checks>>

\* Choice 0 of the main menu ends the run.
AppExit ==
    /\ last.op = "idle"
    /\ pc = "menu"
    /\ pc' = "off"
    /\ current_user' = <<>>
    /\ services' = <<>>
    /\ UNCHANGED <<store, now, strict_checks, last, attempts>>

\* A service call of a menu handler: handle_menu_choice and the handlers
\* catch what the call raises, and the menu is shown again.
AppCall(op, args, out) ==
    /\ TotalRows(out.db) <= MaxRows
    /\ \A t \in EntityTables :
           out.db.seq[t] <= (IF t = "guest" THEN MaxGuests ELSE MaxId)
    /\ Len(out.db.audit_log) <= MaxAppAudit
    /\ Commit(out.db)
    /\ last' = [op |-> op, args |-> args, exc |-> out.exc, msg |-> out.msg,
                ret |-> out.ret]
    /\ UNCHANGED <<now, strict_checks, session>>

\* MuseumApplication.check_permission in front of a handler: the handler
\* runs when check_access grants the logged-in user's role, and nothing but
\* the check_access call happens when it does not.
AppCheckPermission(required_role, op, args, out) ==
    IF check_access(current_user[1].role, required_role)
    THEN AppCall(op, args, out)
    ELSE AppCall("check_access",
                 [user_role |-> current_user[1].role,
                  required_role |-> required_role], Ok(DB, FALSE))

\* Main menu 1, choice 2: add_museum.
AppAddMuseum ==
    /\ last.op = "idle"
    /\ pc = "menu"
    /\ \E name \in NamesOrEmpty :
         AppCheckPermission("curator", "create_museum",
             [user_id |-> services[1], name |-> name, city |-> CityX,
              phone |-> << <<>> >>],
             create_museum(DB, services[1], name, CityX, << <<>> >>))

\* Main menu 2, choice 2: add_exhibit.
AppAddExhibit ==
    /\ last.op = "idle"
    /\ pc = "menu"
    /\ \E value \in {0, 20000} :
         AppCheckPermission("curator", "add_exhibit",
             [user_id |-> services[1], museum_id |-> 1, title |-> TextA,
              date_acquired |-> now, condition |-> <<"Good">>,
              value |-> <<value>>],
             add_exhibit(DB, services[1], 1, TextA, now, <<"Good">>,
                         <<value>>))

\* Main menu 3, choice 2: register_visitor, which no permission check
\* precedes.
AppRegisterVisitor ==
    /\ last.op = "idle"
    /\ pc = "menu"
    /\ \E email \in EmailsGoodOrBad, membership \in MembershipsTyped :
         AppCall("register_visitor",
                 [user_id |-> services[1], name |-> TextA, email |-> email,
                  membership |-> <<membership>>],
                 register_visitor(DB, services[1], TextA, email,
                                  <<membership>>))

\* Main menu 3, choice 3: log_visit, which no permission check precedes; the
\* membership is read from the visitor's row.
AppLogVisit ==
    /\ last.op = "idle"
    /\ pc = "menu"
    /\ \E visitor_id \in {1}, rating \in {<<>>, <<5>>} :
         LET visitor == {g \in guest : g.guest_id = visitor_id}
             membership ==
                 IF visitor = {} THEN "None"
                 ELSE LET m == (CHOOSE g \in visitor : TRUE).membership_type
                      IN IF m = <<>> THEN "None" ELSE m[1]
         IN AppCall("log_visit_with_pricing",
                    [user_id |-> services[1], visitor_id |-> visitor_id,
                     museum_id |-> 1, visit_date |-> now,
                     membership_type |-> membership, rating |-> rating],
                    log_visit_with_pricing(DB, services[1], visitor_id, 1,
                                           now, membership, rating))

\* Main menu 4, choice 2: schedule_maintenance.
AppScheduleMaintenance ==
    /\ last.op = "idle"
    /\ pc = "menu"
    /\ \E d \in {0, advance_days + 1} :
         AppCheckPermission("curator", "schedule_maintenance",
             [user_id |-> services[1], item_id |-> 1, action |-> TextA,
              date |-> now + d, specialist |-> TextA, cost |-> <<0>>],
             schedule_maintenance(DB, services[1], 1, TextA, now + d, TextA,
                                  <<0>>))

\* Main menu 6, which handle_menu_choice offers to an admin alone, and
\* choice 1 of user_management_menu: create_user.
AppCreateUser ==
    /\ last.op = "idle"
    /\ pc = "menu"
    /\ current_user[1].role = "admin"
    /\ \E password \in NewPasswords, role \in RolesGranted :
         AppCheckPermission("admin", "create_new_user",
             [username |-> "bob", password |-> password, role |-> role,
              requester_role |-> current_user[1].role],
             create_new_user(DB, "bob", password, role,
                             current_user[1].role))

\* SpecApp: runs of the application on the store of a new installation.
NextApp ==
    \/ Return
    \/ Run
    \/ AppLogin
    \/ AppExit
    \/ AppAddMuseum
    \/ AppAddExhibit
    \/ AppRegisterVisitor
    \/ AppLogVisit
    \/ AppScheduleMaintenance
    \/ AppCreateUser

SpecApp == Init /\ [][NextApp]_vars


(***************************************************************************)
(* Vocabulary of the properties.                                           *)
(***************************************************************************)
\* The exception classes of the error taxonomy, told apart as a caller of
\* the code can tell them apart: by exception type and message.
Succeeded(c) == c.exc = ""
IsIntegrityError(c) ==
    c.exc = "ValueError" /\ c.msg = "Data integrity violation"
IsValidationError(c) == c.exc = "ValueError" /\ ~IsIntegrityError(c)
IsPermissionError(c) == c.exc = "PermissionError"

(***************************************************************************)
(* Transactions and the audit trail.                                       *)
(***************************************************************************)
\* The mutating operations of the entity services, the table each one
\* writes and the kind of its write.
ServiceMutators == {"create_museum", "add_exhibit",
                    "update_exhibit_condition", "flag_for_restoration",
                    "register_visitor", "log_visit_with_pricing",
                    "schedule_maintenance"}
ServiceUpdates == {"update_exhibit_condition", "flag_for_restoration"}
BusinessOperations == ServiceMutators \cup {"create_new_user"}

MutatedTable(op) ==
    CASE op = "create_museum" -> "museum"
      [] op \in {"add_exhibit", "update_exhibit_condition",
                 "flag_for_restoration"} -> "museum_item"
      [] op = "register_visitor" -> "guest"
      [] op = "log_visit_with_pricing" -> "guest_visit"
      [] op = "schedule_maintenance" -> "item_maintenance"

MutatedRecord(c) ==
    IF c.op \in ServiceUpdates THEN c.args.exhibit_id ELSE c.ret

entities == <<museum, museum_item, item_maintenance, guest, guest_visit>>

ByActingUser(c) == c.op \in ServiceMutators /\ c.args.user_id # 0

\* C1: a step of a mutating service call made with an acting user never
\* leaves a changed record in the store without an audit entry written in
\* the same step, also when the call ends with an error.
C1_RecordWithAudit ==
    ByActingUser(last') /\ entities' # entities => audit_log' # audit_log

C1_RecordAndAuditTogether == [][C1_RecordWithAudit]_vars

\* C2: a business-layer operation that ends by raising a validation error
\* leaves every table of the store, the audit log included, as it was
\* before the call.
C2_Unchanged ==
    last'.op \in BusinessOperations /\ IsValidationError(last')
        => UNCHANGED store

C2_NoPartialWrite == [][C2_Unchanged]_vars

C2_Witness ==
    /\ last.op = "add_exhibit"
    /\ last.msg = "High-value items must have condition"
    /\ museum # {}
    /\ audit_log # <<>>

\* C3: a successful mutating call of a service built with an acting user
\* appends exactly one audit entry; the entry carries that user's id, the
\* mutated table, INSERT or UPDATE according to the operation, and the id
\* of the mutated record.
C3_OneEntry ==
    ByActingUser(last') /\ Succeeded(last') =>
        /\ Len(audit_log') = Len(audit_log) + 1
        /\ SubSeq(audit_log', 1, Len(audit_log)) = audit_log
        /\ LET e == audit_log'[Len(audit_log')]
           IN /\ e.user_id = last'.args.user_id
              /\ e.table_name = MutatedTable(last'.op)
              /\ e.action = (IF last'.op \in ServiceUpdates THEN "UPDATE"
                             ELSE "INSERT")
              /\ e.record_id = MutatedRecord(last')

C3_AuditEntryPerMutation == [][C3_OneEntry]_vars

C3_Witness ==
    /\ last.op = "flag_for_restoration"
    /\ Succeeded(last)
    /\ last.args.user_id = 2
    /\ Len(audit_log) = 2
    /\ audit_log[1].action = "INSERT"
    /\ audit_log[2].action = "UPDATE"
    /\ \E x \in museum_item : /\ x.item_id = audit_log[2].record_id
                              /\ x.condition = <<"Restoration Required">>

\* C4: no step removes or alters an audit entry: the audit log after any
\* operation (service call, simple CRUD update or delete, reset) extends the
\* audit log before it, so entries outlive the records they describe.
C4_Extends ==
    /\ Len(audit_log') >= Len(audit_log)
    /\ SubSeq(audit_log', 1, Len(audit_log)) = audit_log

C4_AuditAppendOnly == [][C4_Extends]_vars

C4_Witness ==
    /\ last.op \in {"clear_database_contents", "MuseumDB.remove_museum"}
    /\ museum = {}
    /\ \E i \in 1..Len(audit_log) : /\ audit_log[i].table_name = "museum"
                                    /\ audit_log[i].action = "INSERT"
                                    /\ audit_log[i].record_id = 1

(***************************************************************************)
(* Museums.                                                                *)
(***************************************************************************)
\* A museum made by an earlier create_museum call with the very same name,
\* as the audit entry of that call records it, is still in the store.
C10_CreatedBefore(a) ==
    \E i \in 1..Len(audit_log) :
        /\ audit_log[i].table_name = "museum"
        /\ audit_log[i].action = "INSERT"
        /\ audit_log[i].details = <<"Added museum", a.name>>
        /\ \E m \in museum : /\ m.id = audit_log[i].record_id
                             /\ m.city = a.city

C10_NoTwoAlike ==
    \A m1, m2 \in museum :
        m1.museum_name = m2.museum_name /\ m1.city = m2.city => m1 = m2

C10_DuplicateError ==
    last'.op = "create_museum" /\ C10_CreatedBefore(last'.args)
        => last'.exc = "ValueError" /\ last'.msg = "Museum already exists"

\* C10: creating a museum after one created with the identical (name, city)
\* fails with the duplicate error, and the store never holds two museums
\* with the same (name, city), names given with surrounding whitespace
\* included.
C10_UniqueMuseums == []C10_NoTwoAlike /\ [][C10_DuplicateError]_vars

DigitCount(phone) ==
    Cardinality({i \in 1..Len(phone) : phone[i] \in Digits})

\* A phone that is passed and not empty.
PhoneSupplied(a) == a.phone # <<>> /\ a.phone[1] # <<>>

C16_Malformed(phone) ==
    \/ \E i \in 1..Len(phone) : phone[i] \notin PhonePattern
    \/ DigitCount(phone) < 10

\* C16: create_museum fails with a validation error, creating no museum,
\* whenever the supplied phone holds a character other than digits, spaces,
\* +, -, ( and ) or holds fewer than 10 digits; a supplied phone is accepted
\* only with at least 10 digits.
C16_PhoneValidated ==
    /\ last.op = "create_museum"
    /\ PhoneSupplied(last.args)
    /\ C16_Malformed(last.args.phone[1])
    => IsValidationError(last)

C19_Count(stats) ==
    IF stats.avg_rating = <<>> THEN 1 ELSE stats.avg_rating[1].count

\* min(30, 2 x exhibits) + min(40, 0.5 x visits) + (avgRating / 5) x 30,
\* in hundredths and multiplied by the number of ratings.
C19_Formula(stats) ==
    (100 * min(30, 2 * stats.total_exhibits)
        + 100 * min(40, stats.total_visits \div 2)
        + 50 * (IF stats.total_visits < 80 THEN stats.total_visits % 2 ELSE 0))
      * C19_Count(stats)
    + (IF stats.avg_rating = <<>> THEN 0 ELSE 600 * stats.avg_rating[1].sum)

C19_Example ==
    /\ last.args.total_exhibits = 3
    /\ last.args.total_visits = 20
    /\ last.args.avg_rating = <<[sum |-> 4, count |-> 1]>>
    => last.ret = 4000

\* C19: for every museum's aggregated stats the performance score equals
\* min(30, 2 x exhibits) + min(40, 0.5 x visits) + (avgRating / 5) x 30, the
\* rating term 0 without ratings, and lies in [0, 100]; 3 exhibits, 20
\* visits and average rating 4.0 give 40.0.
C19_ScoreIsFormula ==
    last.op = "calculate_performance_score" =>
        /\ last.ret * C19_Count(last.args) = C19_Formula(last.args)
        /\ last.ret \in 0..10000
        /\ C19_Example

\* C19, amended: the score is that sum rounded to two decimals: a whole
\* number of hundredths at most half a hundredth away from the sum.
C19_ScoreIsRoundedFormula ==
    last.op = "calculate_performance_score" =>
        LET d == 2 * (last.ret * C19_Count(last.args)
                        - C19_Formula(last.args))
        IN /\ d <= C19_Count(last.args)
           /\ -d <= C19_Count(last.args)
           /\ last.ret \in 0..10000
           /\ C19_Example

C19_Witness ==
    /\ last.op = "calculate_performance_score"
    /\ last.args.total_exhibits = 16
    /\ last.args.total_visits = 81
    /\ last.args.avg_rating = <<[sum |-> 10, count |-> 7]>>
    /\ last.ret = 7857

(***************************************************************************)
(* Visitors.                                                               *)
(***************************************************************************)
C11_Duplicate ==
    /\ last'.op = "register_visitor"
    /\ \E g \in guest : lower(g.contact_email) = lower(last'.args.email)
    => last'.exc = "ValueError" /\ last'.msg = "Visitor already registered"

C11_Lowercase == \A g \in guest : g.contact_email = lower(g.contact_email)

C11_NoSharedEmail ==
    \A g1, g2 \in guest :
        lower(g1.contact_email) = lower(g2.contact_email) => g1 = g2

\* C11: registering a visitor whose e-mail equals, in any letter case, one
\* already registered fails with the duplicate error; e-mails are stored in
\* lowercase and no two visitors share an e-mail compared without case.
C11_UniqueEmails ==
    /\ [](C11_Lowercase /\ C11_NoSharedEmail)
    /\ [][C11_Duplicate]_vars

C11_Witness ==
    /\ last.op = "register_visitor"
    /\ last.args.email = EmailUpper
    /\ last.msg = "Visitor already registered"
    /\ Cardinality(guest) = 2

C17_RatingRejected ==
    /\ last'.op = "log_visit_with_pricing"
    /\ last'.args.rating # <<>>
    /\ last'.args.rating[1] \notin 1..5
    => /\ IsValidationError(last')
       /\ last'.msg = "Rating must be between 1 and 5"
       /\ UNCHANGED store

\* A visit dated after the current day fails with the kind of error the
\* code raises for it, and no visit is stored.
C17_FutureFails ==
    /\ last'.op = "log_visit_with_pricing"
    /\ last'.args.visit_date > now
    => /\ last'.exc = "ValueError"
       /\ UNCHANGED store

C17_FutureRejected ==
    /\ last'.op = "log_visit_with_pricing"
    /\ last'.args.visit_date > now
    => /\ IsValidationError(last')
       /\ guest_visit' = guest_visit

C17_Stored ==
    \A v \in guest_visit :
        /\ v.rating = <<>> \/ v.rating[1] \in 1..5
        /\ v.visit_date <= now

C17_Holds ==
    /\ []C17_Stored
    /\ [][C17_RatingRejected /\ C17_FutureFails]_vars

\* C17: log_visit_with_pricing fails with a validation error, storing no
\* visit, when a rating outside 1..5 is supplied or the visit date is in
\* the future; every stored visit has a null rating or a rating in 1..5 and
\* a visit date not later than the current date.
C17_VisitValidated ==
    /\ []C17_Stored
    /\ [][C17_RatingRejected /\ C17_FutureRejected]_vars

\* The price table of the claim, in cents.
C18_Price(membership_type) ==
    CASE membership_type = "None" -> 1500
      [] membership_type = "Basic" -> 1350
      [] membership_type = "Premium" -> 1125
      [] membership_type = "Family" -> 1050
      [] OTHER -> 1500

C18_PriceStored ==
    last'.op = "log_visit_with_pricing" =>
        /\ \A v \in guest_visit' \ guest_visit :
               v.ticket_price = <<C18_Price(last'.args.membership_type)>>
        /\ Succeeded(last') =>
               \E v \in guest_visit' \ guest_visit : v.visit_id = last'.ret

C18_PriceInRange ==
    \A v \in guest_visit :
        v.ticket_price # <<>> /\ v.ticket_price[1] \in 0..1500

\* C18: the ticket price stored by log_visit_with_pricing is 15.00 less the
\* discount of the membership type passed: None 15.00, Basic 13.50, Premium
\* 11.25, Family 10.50, and 15.00 for an unknown type; a stored price is
\* never negative and never above 15.00.
C18_TicketPrice ==
    /\ []C18_PriceInRange
    /\ [][C18_PriceStored]_vars

C18_Witness ==
    /\ last.op = "log_visit_with_pricing"
    /\ last.args.membership_type = "Family"
    /\ Succeeded(last)
    /\ \E v \in guest_visit : v.ticket_price = <<1050>>

(***************************************************************************)
(* Exhibits.                                                               *)
(***************************************************************************)
\* An add_exhibit call for an existing museum, with a non-empty title and a
\* date that is not in the future.
WellFormedExhibit(a) ==
    /\ a.museum_id \in MuseumIds(DB)
    /\ Len(strip(a.title)) > 0
    /\ a.date_acquired <= now

\* The rows a step adds to museum_item.
NewItems == {x \in museum_item' : x.item_id \notin ItemIds(DB)}

\* C12: for a well-formed add_exhibit call with value > 10000: without a
\* condition the call fails with the validation error and adds no exhibit;
\* with a condition (of the enum) the exhibit is created with that value and
\* condition, and the call returns normally whenever its acting user, if
\* any, is a user.
C12_HighValueStep ==
    /\ last'.op = "add_exhibit"
    /\ WellFormedExhibit(last'.args)
    /\ last'.args.value # <<>>
    /\ last'.args.value[1] > 10000
    => /\ last'.args.condition = <<>> =>
              /\ IsValidationError(last')
              /\ last'.msg = "High-value items must have condition"
              /\ museum_item' = museum_item
       /\ (last'.args.condition # <<>>
             /\ last'.args.condition[1] \in Conditions) =>
              /\ \E x \in NewItems : /\ x.value = last'.args.value
                                     /\ x.condition = last'.args.condition
              /\ last'.args.user_id \in UserIds(DB) \cup {0}
                     => Succeeded(last')

C13_FutureRejected ==
    last'.op = "add_exhibit" /\ last'.args.date_acquired > now
        => /\ IsValidationError(last')
           /\ last'.msg = "Acquisition date cannot be in the future"
           /\ UNCHANGED store

C13_TodayAccepted ==
    /\ last'.op = "add_exhibit"
    /\ WellFormedExhibit(last'.args)
    /\ last'.args.date_acquired = now
    /\ (last'.args.value = <<>> \/ last'.args.value[1] <= 10000)
    /\ last'.args.condition \in {<<>>, <<"Good">>}
    => \E x \in NewItems : x.date_acquired = now

C13_NoFutureExhibit == \A x \in museum_item : x.date_acquired <= now

\* C13: add_exhibit fails with the validation error when the acquisition
\* date is later than the current date and accepts the current date, so no
\* exhibit made by the exhibit service is dated in the future.
C13_AcquisitionNotInFuture ==
    /\ []C13_NoFutureExhibit
    /\ [][C13_FutureRejected /\ C13_TodayAccepted]_vars

C13_Witness ==
    /\ now = 1
    /\ last.op = "add_exhibit"
    /\ Succeeded(last)
    /\ last.args.date_acquired = 1
    /\ \E x \in museum_item : x.item_id = last.ret /\ x.date_acquired = 1

\* The maintenance records of an exhibit.
History(item_id) == {r \in item_maintenance : r.item_ref = item_id}

DeletionPaths == {"MuseumDB.remove_exhibit", "MuseumDB.remove_museum"}

C14_Kept ==
    last'.op \in DeletionPaths =>
        \A x \in museum_item :
            History(x.item_id) # {} =>
                /\ x \in museum_item'
                /\ History(x.item_id) \subseteq item_maintenance'

C14_Rejected ==
    /\ last'.op = "MuseumDB.remove_exhibit"
    /\ last'.args.exhibit_id \in ItemIds(DB)
    /\ History(last'.args.exhibit_id) # {}
    => last'.exc = "IntegrityError" /\ UNCHANGED store

C14_MuseumRejected ==
    /\ last'.op = "MuseumDB.remove_museum"
    /\ last'.args.museum_id \in MuseumIds(DB)
    /\ \E x \in museum_item : /\ x.museum_ref = last'.args.museum_id
                              /\ History(x.item_id) # {}
    => last'.exc # "" /\ UNCHANGED store

\* C14: deleting an exhibit that has a maintenance record is rejected and
\* leaves the exhibit and its maintenance records in the store, on the
\* simple variant's remove_exhibit and on the removal of the exhibit's
\* museum alike.
C14_DeletionRejected ==
    [][C14_Kept /\ C14_Rejected /\ C14_MuseumRejected]_vars

C15_InvalidRejected ==
    /\ last'.op = "update_exhibit_condition"
    /\ last'.args.condition \notin Conditions
    => /\ IsValidationError(last')
       /\ last'.msg = "Invalid condition"
       /\ UNCHANGED store

C15_InEnum ==
    \A x \in museum_item :
        x.condition # <<>> /\ x.condition[1] \in Conditions

\* C15: update_exhibit_condition fails with the validation error for a
\* condition outside the five-value enum and then changes neither the
\* exhibit nor the audit log; every exhibit written by the services holds
\* a condition of the enum.
C15_ConditionEnum == []C15_InEnum /\ [][C15_InvalidRejected]_vars

C15_Witness ==
    /\ last.op = "update_exhibit_condition"
    /\ last.args.condition = "poor"
    /\ last.msg = "Invalid condition"
    /\ \E x \in museum_item : x.condition = <<"Restoration Required">>
    /\ audit_log # <<>>

C28_MissingExhibit ==
    /\ last'.op \in ServiceUpdates
    /\ last'.args.exhibit_id \notin ItemIds(DB)
    => audit_log' = audit_log

\* An update of an exhibit that does not exist changes no exhibit.
C28_NothingUpdated ==
    [][last'.op \in ServiceUpdates /\ last'.args.exhibit_id \notin ItemIds(DB)
           => museum_item' = museum_item]_vars

\* C28: update_exhibit_condition and flag_for_restoration called with the id
\* of an exhibit that is not in the store add no entry to the audit log.
C28_NoAuditWithoutUpdate == [][C28_MissingExhibit]_vars

(***************************************************************************)
(* Maintenance.                                                            *)
(***************************************************************************)
C20_TooFar ==
    /\ last'.op = "schedule_maintenance"
    /\ last'.args.date > now + 365
    => /\ IsValidationError(last')
       /\ last'.msg = "Cannot schedule maintenance more than 1 year in advance"
       /\ item_maintenance' = item_maintenance
       /\ audit_log' = audit_log

\* A date exactly 365 days ahead is not refused by this rule.
C20_WithinYear ==
    /\ last'.op = "schedule_maintenance"
    /\ last'.args.date <= now + 365
    => last'.msg # "Cannot schedule maintenance more than 1 year in advance"

\* C20: schedule_maintenance fails with a validation error when the
\* maintenance date is more than 365 days after the current date, and then
\* writes neither a maintenance record nor an audit entry.
C20_SchedulingHorizon == [][C20_TooFar /\ C20_WithinYear]_vars

C20_Witness ==
    /\ last.op = "schedule_maintenance"
    /\ last.args.date = now + 366
    /\ last.args.item_id \in ItemIds(DB)
    /\ last.args.user_id = 1
    /\ last.msg = "Cannot schedule maintenance more than 1 year in advance"

C21_FutureRejected ==
    /\ last'.op = "schedule_maintenance"
    /\ last'.args.date > now
    => /\ ~Succeeded(last')
       /\ item_maintenance' = item_maintenance

C21_NotInFuture ==
    \A r \in item_maintenance : r.maintenance_date <= now

\* C21: every maintenance record stored by schedule_maintenance has a date
\* that is not in the future; a call with a future date is rejected and
\* stores no record, also when the date is within 365 days.
C21_MaintenanceNotInFuture ==
    /\ []C21_NotInFuture
    /\ [][C21_FutureRejected]_vars

C21_Witness ==
    /\ last.op = "schedule_maintenance"
    /\ last.args.date = now + 1
    /\ last.args.item_id \in ItemIds(DB)
    /\ ~strict_checks
    /\ IsIntegrityError(last)
    /\ item_maintenance = {}

\* The row reports the value in the column.
Reports(row, column, value) ==
    column \in DOMAIN row /\ row[column] = value

C26_Cost == IF last.args.cost = <<>> THEN 0 ELSE last.args.cost[1]

\* What the summary does tell of a record just scheduled: a row for its
\* exhibit that counts it and spans its date and cost.
C26_Summarised ==
    last.op = "schedule_maintenance" /\ Succeeded(last) =>
        /\ last.args.item_id \in DOMAIN maintenance_summary(DB)
        /\ LET row == maintenance_summary(DB)[last.args.item_id]
           IN /\ row.total_actions >= 1
              /\ row.first_maintenance <= last.args.date
              /\ row.last_maintenance >= last.args.date
              /\ row.total_cost # <<>>
              /\ row.total_cost[1] >= C26_Cost

\* C26: after schedule_maintenance has stored a record, the maintenance
\* summary query reports the action, date, specialist and cost that were
\* passed to the call.
C26_RoundTrip ==
    last.op = "schedule_maintenance" /\ Succeeded(last) =>
        \E item_id \in DOMAIN maintenance_summary(DB) :
            LET row == maintenance_summary(DB)[item_id]
            IN /\ Reports(row, "maintenance_type", last.args.action)
               /\ Reports(row, "maintenance_date", last.args.date)
               /\ Reports(row, "specialist_name", last.args.specialist)
               /\ Reports(row, "cost", C26_Cost)

(***************************************************************************)
(* The maintenance plan.                                                   *)
(***************************************************************************)
Plan == last.ret.plan
Overdue == last.ret.overdue
PlanIds == {Plan[i].item_id : i \in 1..Len(Plan)}

\* The most recent maintenance of the exhibit is more than the threshold
\* old at the time of the call (ages in eighths of a day).
C22_Old(item_id) ==
    \E r \in History(item_id) :
        /\ \A q \in History(item_id) : q.maintenance_date <= r.maintenance_date
        /\ 8 * (now - r.maintenance_date) + last.args.time_of_day
               > 8 * last.args.days_threshold

\* C22: the maintenance plan holds an exhibit exactly when its most recent
\* maintenance is more than the threshold old or it was never maintained.
C22_PlanMembership ==
    last.op = "generate_maintenance_plan" =>
        /\ \A x \in museum_item :
              x.item_id \in PlanIds
                  <=> (History(x.item_id) = {} \/ C22_Old(x.item_id))
        /\ PlanIds \subseteq ItemIds(DB)
        /\ Cardinality(PlanIds) = Len(Plan)

C22_Witness ==
    /\ last.op = "generate_maintenance_plan"
    /\ last.args.days_threshold = 180
    /\ \E x \in museum_item :
          /\ x.item_id \notin PlanIds
          /\ \E r \in History(x.item_id) : r.maintenance_date = now - 10
          /\ \E r \in History(x.item_id) : r.maintenance_date = now - 400
    /\ \E x \in museum_item :
          x.item_id \in PlanIds /\ History(x.item_id) = {}
    /\ \E x \in museum_item :
          x.item_id \in PlanIds /\ History(x.item_id) # {}

\* conditionPenalty + valuePenalty + timePenalty of a plan item, in
\* four-hundredths; days_since / 50 is days_since in eighths of a day.
C23_Sum(item) ==
    (IF item.condition \in {<<"Poor">>, <<"Restoration Required">>} THEN 50
     ELSE IF item.condition = <<"Fair">> THEN 30 ELSE 0) * 400
    + (IF item.value > 10000 THEN 30
       ELSE IF item.value > 5000 THEN 20 ELSE 0) * 400
    + min(20 * 400, IF History(item.item_id) = {} THEN 999 * 8
                    ELSE item.days_since[1])

C23_Example(item) ==
    /\ item.condition = <<"Poor">>
    /\ item.value = 50000
    /\ item.days_since = <<400 * 8>>
    => item.priority_score = 8800

\* C23: the priority score of every plan item is the sum of its three
\* penalties, the time penalty counting 999 days only for an exhibit never
\* maintained; it lies in [0, 100]; a Poor exhibit worth 50000 maintained
\* 400 days ago scores 88.
C23_ScoreIsSum ==
    last.op = "generate_maintenance_plan" =>
        \A i \in 1..Len(Plan) :
            /\ 4 * Plan[i].priority_score = C23_Sum(Plan[i])
            /\ Plan[i].priority_score \in 0..10000
            /\ C23_Example(Plan[i])

\* The same with the score rounded to two decimals.
C23_ScoreIsRoundedSum ==
    last.op = "generate_maintenance_plan" =>
        \A i \in 1..Len(Plan) :
            LET d == 4 * Plan[i].priority_score - C23_Sum(Plan[i])
            IN /\ d <= 2 /\ -d <= 2
               /\ Plan[i].priority_score \in 0..10000
               /\ C23_Example(Plan[i])

C24_Label(score) ==
    IF score >= 8000 THEN "CRITICAL"
    ELSE IF score >= 6000 THEN "HIGH"
    ELSE IF score >= 4000 THEN "MEDIUM"
    ELSE "LOW"

\* C24: the urgency of every plan item is the label of the priority score
\* reported in the same item.
C24_UrgencyAgrees ==
    last.op = "generate_maintenance_plan" =>
        \A i \in 1..Len(Plan) :
            Plan[i].urgency = C24_Label(Plan[i].priority_score)

C25_Position(item_id) ==
    CHOOSE i \in 1..Len(Overdue) : Overdue[i].item_id = item_id

\* C25: the plan holds the items of the overdue query in descending order
\* of priority score, items with equal scores in the order of the query.
C25_SortedStable ==
    last.op = "generate_maintenance_plan" =>
        /\ Len(Plan) = Len(Overdue)
        /\ PlanIds = {Overdue[i].item_id : i \in 1..Len(Overdue)}
        /\ \A i, j \in 1..Len(Plan) :
              i < j =>
                /\ Plan[i].priority_score >= Plan[j].priority_score
                /\ Plan[i].priority_score = Plan[j].priority_score
                      => C25_Position(Plan[i].item_id)
                            < C25_Position(Plan[j].item_id)

C25_Witness ==
    /\ last.op = "generate_maintenance_plan"
    /\ Len(Plan) = 3
    /\ Plan[1].priority_score = Plan[2].priority_score
    /\ Plan[1].item_id > Plan[2].item_id
    /\ Plan[2].priority_score > Plan[3].priority_score
    /\ Plan[3].item_id = Overdue[1].item_id

(***************************************************************************)
(* Authentication and authorization.                                       *)
(***************************************************************************)

\* C5: create_new_user raises PermissionError for every requester role other
\* than admin, whatever the other arguments are (the permission check comes
\* first), never raises it for admin, and a user row only ever appears in a
\* step that is a successful create_new_user call of an admin requester.
C5_PermissionFirst ==
    last.op = "create_new_user" =>
        /\ last.args.requester_role \in {"curator", "viewer", "guest"}
              => IsPermissionError(last)
        /\ last.args.requester_role = "admin" => ~IsPermissionError(last)

C5_RowsByAdmin ==
    {u.user_id : u \in users'} # {u.user_id : u \in users} =>
        /\ last'.op = "create_new_user"
        /\ last'.args.requester_role = "admin"
        /\ Succeeded(last')

C5_AdminOnlyCreatesUsers == []C5_PermissionFirst /\ [][C5_RowsByAdmin]_vars

C5_Witness ==
    /\ \E u \in users : u.username = "bob"
    /\ last.op = "create_new_user"
    /\ last.args.requester_role = "curator"
    /\ Len(last.args.password) < 8
    /\ IsPermissionError(last)

\* C6: for an admin requester a password shorter than 8, a username shorter
\* than 3 or a role outside admin, curator, viewer gives a validation error
\* and no user row; a username already in the table is rejected, and no two
\* user rows ever share a username.
C6_InvalidInput(a) ==
    \/ Len(a.password) < 8
    \/ Len(a.username) < 3
    \/ a.role \notin {"admin", "curator", "viewer"}

C6_Rejected ==
    /\ (last.op = "create_new_user" /\ last.args.requester_role = "admin"
          /\ C6_InvalidInput(last.args)) => IsValidationError(last)
    /\ \A u1, u2 \in users : u1.username = u2.username => u1 = u2

C6_NoRow ==
    (last'.op = "create_new_user" /\ last'.args.requester_role = "admin") =>
        /\ C6_InvalidInput(last'.args) => UNCHANGED store
        /\ (\E u \in users : u.username = last'.args.username)
              => (~Succeeded(last') /\ UNCHANGED store)

C6_UserValidation == []C6_Rejected /\ [][C6_NoRow]_vars

C6_Witness ==
    /\ last.op = "create_new_user"
    /\ last.args.requester_role = "admin"
    /\ last.args.username = "bob"
    /\ last.args.password = "admin12"
    /\ IsValidationError(last)
    /\ \E u \in users : u.username = "bob"

\* C7: a successful create_new_user call leaves an audit entry for the users
\* table whose record id is the id of the created user.
C7_UserCreationAudited ==
    (last.op = "create_new_user" /\ Succeeded(last)) =>
        \E i \in 1..Len(audit_log) :
            /\ audit_log[i].table_name = "users"
            /\ audit_log[i].action = "INSERT"
            /\ audit_log[i].record_id = last.ret

\* C8: over viewer, curator, admin, check_access returns true exactly for the
\* pairs whose user rank is at least the required rank; it never raises and
\* changes nothing in the store; the answer is a function of the arguments
\* alone, so the same arguments always give the same answer.
C8_Granted ==
    {<<"viewer", "viewer">>, <<"curator", "viewer">>, <<"curator", "curator">>,
     <<"admin", "viewer">>, <<"admin", "curator">>, <<"admin", "admin">>}

C8_Answer ==
    last.op = "check_access" =>
        /\ Succeeded(last)
        /\ last.ret \in BOOLEAN
        /\ ({last.args.user_role, last.args.required_role} \subseteq
               {"viewer", "curator", "admin"}
             => (last.ret <=>
                   <<last.args.user_role, last.args.required_role>>
                       \in C8_Granted))

C8_Pure == last'.op = "check_access" => UNCHANGED store

C8_CheckAccess == []C8_Answer /\ [][C8_Pure]_vars

C8_Witness ==
    /\ last.op = "check_access"
    /\ last.args.user_role = "curator"
    /\ last.args.required_role = "admin"
    /\ last.ret = FALSE

\* A user of no defined role is refused every defined role.
C27_DefinedRoleRefused ==
    /\ last.op = "check_access"
    /\ last.args.user_role \notin {"viewer", "curator", "admin"}
    /\ last.args.required_role \in {"viewer", "curator", "admin"}
    => last.ret = FALSE

\* C27: a user whose role is not one of viewer, curator, admin is never
\* granted access, whatever the required role is, a required role that is
\* not one of the three included.
C27_UnknownRoleRefused ==
    /\ last.op = "check_access"
    /\ last.args.user_role \notin {"viewer", "curator", "admin"}
    => last.ret = FALSE

\* C9: login succeeds exactly when username and password are non-empty and
\* an active user has that username and the digest of that password; the
\* returned identity is that user's, whose last_login then holds the time of
\* the call; a failed login changes nothing in the store.
C9_Matches(a, u) ==
    /\ u.username = a.username
    /\ u.password_hash = <<"sha256", a.password>>
    /\ u.is_active = 1

C9_Decision ==
    last.op = "login" =>
        /\ Succeeded(last) <=>
              /\ last.args.username # ""
              /\ last.args.password # ""
              /\ \E u \in users : C9_Matches(last.args, u)
        /\ Succeeded(last) =>
              \E u \in users :
                  /\ C9_Matches(last.args, u)
                  /\ u.last_login = <<now>>
                  /\ last.ret.user_id = u.user_id
                  /\ last.ret.role = u.role

C9_FailureChangesNothing ==
    (last'.op = "login" /\ ~Succeeded(last')) => UNCHANGED store

C9_Login == []C9_Decision /\ [][C9_FailureChangesNothing]_vars

C9_Witness ==
    /\ last.op = "login"
    /\ last.args.username = "old"
    /\ last.args.password = "admin123"
    /\ ~Succeeded(last)
    /\ \E u \in users : u.username = "old" /\ u.is_active = 0
                          /\ u.password_hash = <<"sha256", "admin123">>
    /\ \E u \in users : u.username = "admin" /\ u.last_login = <<1>>

(***************************************************************************)
(* The interactive application.                                            *)
(***************************************************************************)
C29_Writers == {"create_museum", "add_exhibit", "register_visitor",
                "log_visit_with_pricing", "schedule_maintenance",
                "create_new_user"}

C29_Guarded == {"create_museum", "add_exhibit", "schedule_maintenance"}

\* The menus that check_permission guards: adding a museum, adding an
\* exhibit and scheduling maintenance run for a curator or an admin, and
\* creating a user runs for an admin.
C29_GuardedMenusHold ==
    [][pc = "menu" =>
         /\ last'.op \in C29_Guarded
                => role_hierarchy(current_user[1].role)
                       >= role_hierarchy("curator")
         /\ last'.op = "create_new_user" => current_user[1].role = "admin"]_vars

\* C29: every menu action that writes a record (add museum, add exhibit,
\* register visitor, log visit, schedule maintenance, create user) runs only
\* when the logged-in user's role ranks at least curator, and create user
\* only when it is admin; a step of the menu of a user logged in as viewer
\* leaves every table as it was.
C29_ViewerWritesNothing ==
    [][pc = "menu" =>
         /\ last'.op \in C29_Writers
                => role_hierarchy(current_user[1].role)
                       >= role_hierarchy("curator")
         /\ last'.op = "create_new_user" => current_user[1].role = "admin"
         /\ current_user[1].role = "viewer" => UNCHANGED store]_vars

C30_MenuCalls == C29_Writers \cup {"check_access"}

\* C30: a run makes at most 3 login attempts; after the third failed attempt
\* it has ended, with no service built and no menu shown; the services exist
\* and the menu is shown only from a login that succeeded, for the user that
\* login returned, who is an active user of the store; and a menu handler
\* runs only at the menu, its service acting under that user's id.
C30_LoginFirst ==
    /\ [](attempts <= max_attempts)
    /\ [](attempts = max_attempts
            => pc = "off" /\ services = <<>> /\ current_user = <<>>)
    /\ []((services # <<>> \/ pc = "menu" \/ current_user # <<>>)
            => /\ pc = "menu"
               /\ current_user # <<>>
               /\ services = <<current_user[1].user_id>>
               /\ \E u \in users : /\ u.user_id = current_user[1].user_id
                                   /\ u.username = current_user[1].username
                                   /\ u.role = current_user[1].role
                                   /\ u.is_active = 1)
    /\ [][last'.op = "login"
            => /\ pc = "login" /\ attempts < max_attempts
               /\ Succeeded(last')
                    => /\ pc' = "menu"
                       /\ current_user' = <<last'.ret>>
                       /\ services' = <<last'.ret.user_id>>
               /\ ~Succeeded(last')
                    => /\ attempts' = attempts + 1
                       /\ pc' # "menu"
                       /\ services' = <<>>]_vars
    /\ [][pc' = "menu" /\ pc # "menu"
            => last'.op = "login" /\ Succeeded(last')]_vars
    /\ [][last'.op \in C30_MenuCalls
            => /\ pc = "menu" /\ pc' = "menu"
               /\ last'.op \notin {"check_access", "create_new_user"}
                    => last'.args.user_id = current_user[1].user_id
               /\ last'.op = "create_new_user"
                    => last'.args.requester_role = current_user[1].role
               /\ last'.op = "check_access"
                    => last'.args.user_role = current_user[1].role]_vars

\* The third failed attempt of a run has just ended it.
C30_Witness ==
    /\ last.op = "login"
    /\ ~Succeeded(last)
    /\ attempts = max_attempts
    /\ pc = "off"
    /\ services = <<>>

\* A handler runs for the user a successful login returned.
C30_Served ==
    /\ last.op \in C29_Writers
    /\ Succeeded(last)
    /\ pc = "menu"
    /\ services = <<2>>

====
